---- MODULE Spec2Model ----
(***************************************************************************)
(* Incremental batch orchestration of the content pipeline:                *)
(*   scripts/batch-generator.js   BatchGenerator (scheduler, progress)     *)
(*   scripts/generate-content.js  incrementalGenerate (ledger, pipeline)   *)
(* Files on disk are variables; each process keeps its own in-memory       *)
(* state, which is lost when the process ends.                             *)
(*                                                                         *)
(* A keyword is a sequence of one-character strings, so that trim() and    *)
(* toLowerCase() are computed and not assumed.  An absent file or a null   *)
(* is the empty sequence <<>>, a present value v is <<v>>.                 *)
(***************************************************************************)
EXTENDS Integers, Sequences, FiniteSets, TLC

\* ------------------------------------------------------------ bounds
MaxAdds == 1        \* lines appended to keyword.txt between runs
MaxFaults == 1      \* failed keywords and killed pipeline processes
TickMinutes == 15   \* granularity of the wall clock
MaxKeys == 3        \* keys handed to an ApiKeyManager
MaxTextLen == 5     \* characters of a text handed to extractJson

\* --------------------------------------------------- program constants
BATCH_SIZE == 5
BATCH_INTERVAL_MINUTES == 30

\* ------------------------------------------------------------- strings
Min(a, b) == IF a < b THEN a ELSE b

toLowerCaseChar(c) ==
  CASE c = "A" -> "a"
    [] c = "B" -> "b"
    [] OTHER -> c

toLowerCase(s) == [j \in 1..Len(s) |-> toLowerCaseChar(s[j])]

RECURSIVE trimStart(_)
trimStart(s) == IF s # <<>> /\ Head(s) = " " THEN trimStart(Tail(s)) ELSE s

RECURSIVE trimEnd(_)
trimEnd(s) ==
  IF s # <<>> /\ s[Len(s)] = " " THEN trimEnd(SubSeq(s, 1, Len(s) - 1)) ELSE s

trim(s) == trimEnd(trimStart(s))

includes(seq, x) == \E j \in 1..Len(seq) : seq[j] = x

\* [...new Set(seq)]: the first occurrences, in order
uniqueSeq(seq) ==
  LET firsts == {j \in 1..Len(seq) : \A m \in 1..(j - 1) : seq[m] # seq[j]}
      nth(n) == CHOOSE j \in firsts : Cardinality({q \in firsts : q <= j}) = n
  IN [n \in 1..Cardinality(firsts) |-> seq[nth(n)]]

\* lines.join('\n')
RECURSIVE join(_)
join(lines) ==
  IF lines = <<>> THEN <<>>
  ELSE IF Len(lines) = 1 THEN lines[1]
  ELSE lines[1] \o <<"\n">> \o join(Tail(lines))

charCodeAt(c) ==
  CASE c = "\n" -> 10
    [] c = " " -> 32
    [] c = "A" -> 65
    [] c = "B" -> 66
    [] c = "a" -> 97
    [] c = "b" -> 98
    [] c = "c" -> 99
    [] c = "d" -> 100
    [] c = "e" -> 101
    [] c = "f" -> 102
    [] c = "g" -> 103
    [] OTHER -> 104

\* The rolling hash: for each character, hash = ((hash << 5) - hash) + char,
\* kept to 32 bits by hash & hash.  The 32-bit value is held as <<high, low>>
\* halves of 16 bits, so 31 * hash + char wraps exactly as the int32 does.
RECURSIVE hashLoop(_, _, _, _)
hashLoop(keywordsContent, i, high, low) ==
  IF i > Len(keywordsContent) THEN <<high, low>>
  ELSE hashLoop(keywordsContent, i + 1,
                (31 * high + ((31 * low + charCodeAt(keywordsContent[i])) \div 65536)) % 65536,
                (31 * low + charCodeAt(keywordsContent[i])) % 65536)

getKeywordsHash(keywordsContent) == hashLoop(keywordsContent, 1, 0, 0)

\* ------------------------------------------------------- keyword input
La == <<"a">>
Lb == <<"b">>
Lc == <<"c">>
Ld == <<"d">>
Le == <<"e">>
Lf == <<"f">>
UpperA == <<"A">>
PaddedB == <<" ", "b", " ">>
Blank == <<" ">>

\* The keyword.txt contents a behaviour starts from (raw lines).
KeywordFiles ==
  { <<>>,
    <<La, Lb, Lc>>,
    <<La, Blank, PaddedB>>,
    <<La, Lb, Lc, Ld, Le, Lf>>,
    <<La, Lb, Lc, Ld, Le, La>> }

\* The lines an edit of keyword.txt may append between runs.
AddableLines == {UpperA}

ApiKeyFiles == {"valid", "novalid", "absent"}

VARIABLES
  \* disk
  keywordFile,    \* keyword.txt: raw lines
  apiKeyFile,     \* apikey.txt: "valid" (some line matches AIzaSy), "novalid", "absent"
  progressFile,   \* .batch-progress.json: <<>> or <<progress>>
  batchFile,      \* keyword-batch.txt: <<>> or <<lines>>
  articlesFile,   \* public/articles.json: <<>> or <<articles>>
  cacheFile,      \* .generate-cache.json: <<>> or <<cache>>
  \* clock
  now,            \* minutes
  \* BatchGenerator process
  bpc,            \* "none", "constructed", "prepare", "generating", "done"
  progress,       \* this.progress
  batchKeywords,  \* runBatch's batchKeywords: <<>> (null) or <<keywords>>
  batchResult,    \* what runBatch returned last
  status,         \* what getStatus returned last
  \* generate-content.js process
  ppc,            \* "none", "start", "processing", "exit0", "exit1"
  keywords,
  isBatch,
  cache,
  currentHash,
  newKeywords,
  existingKeywords,
  allArticles,
  generatedCount,
  kwIndex,        \* processNewKeywords' loop index i, counted from 1
  result,         \* what incrementalGenerate returned last
  \* environment counters
  adds,           \* lines appended to keyword.txt so far
  faults,         \* keywords that failed and pipeline processes killed so far
  \* ApiKeyManager and the steps of processNewKeywords
  stepPc,         \* "none", "construct", or the step whose call is in progress
  apiKeys,        \* the keys handed to new ApiKeyManager
  models,         \* this.models: <<>> before construction
  currentIndex,   \* this.currentIndex
  genI,           \* generate's loop index i
  tried,          \* the modelIndex of each attempt of the latest generate call
  warning,        \* the detail of the latest failed attempt: <<>> or <<detail>>
  genResult,      \* how the latest generate call ended: <<>> while it runs
  analysis,       \* the strategy of the keyword in progress: <<>> or <<analysis>>
  jsonResult,     \* the draft of the keyword in progress: <<>> or <<article>>
  stepsDone,      \* the steps finished for the keyword in progress, in order
  log,            \* the [SUCCESS] and [FAILED] lines, one per keyword
  sinceCall,      \* since the last external call ended: "nocall" (there was none),
                  \* "delay" (a delay was awaited), "nodelay"
  \* the publish-date computation of processNewKeywords
  envBackdate,    \* process.env.BACKDATE_DAYS: <<>> (unset) or <<number>>
  envFuture,      \* process.env.FUTURE_SCHEDULE_DAYS: <<>> (unset) or <<number>>
  pendingCount,   \* keywordsToGenerate.length
  keywordCount,   \* processNewKeywords' keywordCount
  loopI,          \* processNewKeywords' loop index i, counted from 0
  dayOffset,      \* the dayOffset of the latest keyword: <<>> or <<days>>
  \* extractJson
  text,           \* the text extractJson is given, a sequence of characters
  extracted,      \* what extractJson returned: <<>> before the call, or <<value>>
  \* build-manager.js process
  mpc,            \* "none", "batch", "standard", "generate", "site", "end"
  siteBuilds,     \* the vite build calls of the latest build-manager.js process
  \* the shell that execSync starts
  rmFails         \* rm of the batch file fails, as it does when the working
                  \* directory's path holds a space (the path is not quoted)

diskVars == <<keywordFile, apiKeyFile, progressFile, batchFile, articlesFile, cacheFile>>
batchVars == <<bpc, progress, batchKeywords, batchResult>>
pipeVars == <<ppc, keywords, isBatch, cache, currentHash, newKeywords,
              existingKeywords, allArticles, generatedCount, kwIndex, result>>
envVars == <<adds, faults>>
stepVars == <<stepPc, apiKeys, models, currentIndex, genI, tried, warning, genResult,
              analysis, jsonResult, stepsDone, log, sinceCall>>
dateVars == <<envBackdate, envFuture, pendingCount, keywordCount, loopI, dayOffset>>
statusVars == <<status>>
extractVars == <<text, extracted>>
buildVars == <<mpc, siteBuilds>>
shellVars == <<rmFails>>
vars == <<diskVars, now, batchVars, pipeVars, envVars, stepVars, dateVars, statusVars, extractVars, buildVars, shellVars>>

\* ------------------------------------------------------------ records
FreshProgress(t) ==
  [ totalKeywords |-> 0, processedKeywords |-> <<>>, currentBatch |-> 0,
    totalBatches |-> 0, lastRun |-> <<>>, status |-> "idle", startedAt |-> t ]

EmptyCache == [generatedKeywords |-> <<>>, lastHash |-> <<>>]

NoBatchResult == [processed |-> 0, shouldDeploy |-> FALSE, reason |-> "none"]

NoResult == [generated |-> 0, skipped |-> 0, reason |-> "none"]

\* getStatus has not been called
NoStatus ==
  [ processed |-> 0, pending |-> 0, total |-> 0, currentBatch |-> 0, totalBatches |-> 0,
    status |-> "none", nextRun |-> <<>>, startedAt |-> 0 ]

Ceil(n, d) == (n + d - 1) \div d

\* a file that exists and cannot be read or parsed: neither absent (<<>>) nor
\* a value (<<v>>)
Unreadable == <<"not", "JSON">>

\* the file exists and its content can be read and parsed
readable(file) == Len(file) = 1

\* split('\n') then trim each line and drop the empty ones
readLines(file) ==
  SelectSeq([j \in 1..Len(file) |-> trim(file[j])], LAMBDA k : Len(k) > 0)

\* no ApiKeyManager exists and no keyword is in progress
StepIdle ==
  /\ stepPc = "none"
  /\ apiKeys = <<>>
  /\ models = <<>>
  /\ currentIndex = 0
  /\ genI = 0
  /\ tried = <<>>
  /\ warning = <<>>
  /\ genResult = <<>>
  /\ analysis = <<>>
  /\ jsonResult = <<>>
  /\ stepsDone = <<>>
  /\ log = <<>>
  /\ sinceCall = "nocall"

\* no publish date is being computed
DateIdle ==
  /\ envBackdate = <<>>
  /\ envFuture = <<>>
  /\ pendingCount = 0
  /\ keywordCount = 0
  /\ loopI = 0
  /\ dayOffset = <<>>

\* extractJson has not been called
ExtractIdle ==
  /\ text = <<>>
  /\ extracted = <<>>

\* no build-manager.js process runs
BuildIdle ==
  /\ mpc = "none"
  /\ siteBuilds = 0

Init ==
  /\ keywordFile \in KeywordFiles
  /\ apiKeyFile \in ApiKeyFiles
  /\ progressFile = <<>>
  /\ batchFile = <<>>
  /\ articlesFile = <<>>
  /\ cacheFile = <<>>
  /\ now = 0
  /\ bpc = "none"
  /\ progress = FreshProgress(0)
  /\ batchKeywords = <<>>
  /\ batchResult = NoBatchResult
  /\ status = NoStatus
  /\ ppc = "none"
  /\ keywords = <<>>
  /\ isBatch = FALSE
  /\ cache = EmptyCache
  /\ currentHash = <<>>
  /\ newKeywords = <<>>
  /\ existingKeywords = <<>>
  /\ allArticles = <<>>
  /\ generatedCount = 0
  /\ kwIndex = 0
  /\ result = NoResult
  /\ adds = 0
  /\ faults = 0
  /\ StepIdle
  /\ DateIdle
  /\ ExtractIdle
  /\ BuildIdle
  /\ rmFails = FALSE

\* ------------------------------------------------------ BatchGenerator
\* mutant: without a readable progress file the batch counts as just run
loadProgress_JustRun ==
  IF readable(progressFile) THEN progressFile[1]
  ELSE [FreshProgress(now) EXCEPT !.lastRun = <<now>>]

loadProgress == IF readable(progressFile) THEN progressFile[1] ELSE FreshProgress(now)

getPendingKeywords(prog) ==
  LET allKeywords == readLines(keywordFile)
  IN SelectSeq(allKeywords, LAMBDA k : ~includes(prog.processedKeywords, k))

\* mutant: a completed progress is gated by the interval alone
shouldRunBatch_IgnoresCompleted(prog, t) ==
  IF prog.lastRun # <<>> /\ t - prog.lastRun[1] < BATCH_INTERVAL_MINUTES THEN FALSE
  ELSE TRUE

\* mutant: the interval test lets equality count as too soon
shouldRunBatch_AtIntervalRefused(prog, t) ==
  IF prog.status = "completed" THEN FALSE
  ELSE IF prog.lastRun # <<>> /\ t - prog.lastRun[1] <= BATCH_INTERVAL_MINUTES THEN FALSE
  ELSE TRUE

\* mutant: once a batch has run, no later one is let through
shouldRunBatch_OnceOnly(prog, t) ==
  IF prog.status = "completed" THEN FALSE
  ELSE IF prog.lastRun # <<>> THEN FALSE
  ELSE TRUE

shouldRunBatch(prog, t) ==
  IF prog.status = "completed" THEN FALSE
  ELSE IF prog.lastRun # <<>> /\ t - prog.lastRun[1] < BATCH_INTERVAL_MINUTES THEN FALSE
  ELSE TRUE

\* the batch file after cleanupBatchFile: removed, or left where rm failed,
\* the error being ignored
cleanupBatchFile == IF batchFile # <<>> /\ rmFails THEN batchFile ELSE <<>>

\* new BatchGenerator()
Construct ==
  /\ bpc = "none"
  /\ ppc = "none"
  /\ bpc' = "constructed"
  /\ progress' = loadProgress
  /\ UNCHANGED <<batchKeywords, batchResult, diskVars, now, pipeVars, envVars>>
  /\ UNCHANGED <<stepVars, dateVars, statusVars, extractVars, buildVars, shellVars>>

\* runBatch, the shouldRunBatch gate; a refusal cleans the batch file up and returns
RunBatchGate ==
  /\ bpc = "constructed"
  /\ IF shouldRunBatch(progress, now)
     THEN /\ bpc' = "prepare"
          /\ UNCHANGED <<batchFile, batchResult>>
     ELSE /\ bpc' = "done"
          /\ batchFile' = cleanupBatchFile
          /\ batchResult' = [processed |-> 0, shouldDeploy |-> FALSE,
                             reason |-> "interval_not_reached"]
  /\ UNCHANGED <<keywordFile, apiKeyFile, progressFile, articlesFile, cacheFile,
                 progress, batchKeywords, now, pipeVars, envVars>>
  /\ UNCHANGED <<stepVars, dateVars, statusVars, extractVars, buildVars, shellVars>>

\* mutant: the slice is one keyword short
batchSlice_OneShort(pendingKeywords) ==
  SubSeq(pendingKeywords, 1, Min(BATCH_SIZE - 1, Len(pendingKeywords)))

\* the slice prepareBatch takes
batchSlice(pendingKeywords) == SubSeq(pendingKeywords, 1, Min(BATCH_SIZE, Len(pendingKeywords)))

\* the progress prepareBatch leaves in memory
preparedProgress(prog, pendingKeywords) ==
  IF pendingKeywords = <<>>
  THEN [prog EXCEPT !.status = "completed"]
  ELSE [prog EXCEPT !.currentBatch = @ + 1,
                    !.totalKeywords = Len(prog.processedKeywords) + Len(pendingKeywords),
                    !.totalBatches = Ceil(Len(pendingKeywords), BATCH_SIZE),
                    !.status = "processing"]

\* runBatch, prepareBatch: nothing pending completes the progress and returns;
\* otherwise the batch file is written and generate-content.js is started
PrepareBatch ==
  /\ bpc = "prepare"
  /\ LET pendingKeywords == getPendingKeywords(progress)
     IN /\ progress' = preparedProgress(progress, pendingKeywords)
        /\ IF pendingKeywords = <<>>
           THEN /\ progressFile' = <<progress'>>
                /\ batchKeywords' = <<>>
                /\ batchFile' = cleanupBatchFile
                /\ batchResult' = [processed |-> 0, shouldDeploy |-> TRUE,
                                   reason |-> "all_completed"]
                /\ bpc' = "done"
                /\ ppc' = ppc
           ELSE /\ batchKeywords' = <<batchSlice(pendingKeywords)>>
                /\ batchFile' = <<batchSlice(pendingKeywords)>>
                /\ bpc' = "generating"
                /\ ppc' = "start"
                /\ UNCHANGED <<progressFile, batchResult>>
  /\ UNCHANGED <<keywordFile, apiKeyFile, articlesFile, cacheFile, now, keywords,
                 isBatch, cache, currentHash, newKeywords, existingKeywords,
                 allArticles, generatedCount, kwIndex, result, envVars>>
  /\ UNCHANGED <<stepVars, dateVars, statusVars, extractVars, buildVars, shellVars>>

\* the progress markBatchComplete leaves, in memory and on disk
markedProgress(prog, processedKeywords, t) ==
  LET pushed == [prog EXCEPT !.processedKeywords = @ \o processedKeywords,
                             !.lastRun = <<t>>]
      pending == pushed.totalKeywords - Len(pushed.processedKeywords)
  IN IF pending > 0 THEN pushed ELSE [pushed EXCEPT !.status = "completed"]

\* runBatch after generate-content.js exited with 0
BatchCompleted ==
  /\ bpc = "generating"
  /\ ppc = "exit0"
  /\ progress' = markedProgress(progress, batchKeywords[1], now)
  /\ progressFile' = <<progress'>>
  /\ batchFile' = cleanupBatchFile
  /\ batchResult' = [processed |-> Len(batchKeywords[1]), shouldDeploy |-> TRUE,
                     reason |-> "batch_completed"]
  /\ bpc' = "done"
  /\ ppc' = "none"
  /\ UNCHANGED <<keywordFile, apiKeyFile, articlesFile, cacheFile, now, batchKeywords,
                 keywords, isBatch, cache, currentHash, newKeywords, existingKeywords,
                 allArticles, generatedCount, kwIndex, result, envVars>>
  /\ UNCHANGED <<stepVars, dateVars, statusVars, extractVars, buildVars, shellVars>>

\* mutant: the catch stamps the failed batch as a run and saves the progress
BatchFailed_StampsLastRun ==
  /\ bpc = "generating"
  /\ ppc = "exit1"
  /\ progress' = [progress EXCEPT !.lastRun = <<now>>]
  /\ progressFile' = <<progress'>>
  /\ batchFile' = cleanupBatchFile
  /\ batchResult' = [processed |-> 0, shouldDeploy |-> FALSE,
                     reason |-> "generation_failed"]
  /\ bpc' = "done"
  /\ ppc' = "none"
  /\ UNCHANGED <<keywordFile, apiKeyFile, articlesFile, cacheFile, now,
                 batchKeywords, keywords, isBatch, cache, currentHash,
                 newKeywords, existingKeywords, allArticles, generatedCount, kwIndex,
                 result, envVars>>
  /\ UNCHANGED <<stepVars, dateVars, statusVars, extractVars, buildVars, shellVars>>

\* runBatch after generate-content.js failed
BatchFailed ==
  /\ bpc = "generating"
  /\ ppc = "exit1"
  /\ batchFile' = cleanupBatchFile
  /\ batchResult' = [processed |-> 0, shouldDeploy |-> FALSE,
                     reason |-> "generation_failed"]
  /\ bpc' = "done"
  /\ ppc' = "none"
  /\ UNCHANGED <<keywordFile, apiKeyFile, progressFile, articlesFile, cacheFile, now,
                 progress, batchKeywords, keywords, isBatch, cache, currentHash,
                 newKeywords, existingKeywords, allArticles, generatedCount, kwIndex,
                 result, envVars>>
  /\ UNCHANGED <<stepVars, dateVars, statusVars, extractVars, buildVars, shellVars>>

\* the BatchGenerator process ends; its memory is gone
BatchExit ==
  /\ bpc = "done"
  /\ bpc' = "none"
  /\ progress' = FreshProgress(0)
  /\ batchKeywords' = <<>>
  /\ UNCHANGED <<batchResult, diskVars, now, pipeVars, envVars>>
  /\ UNCHANGED <<stepVars, dateVars, statusVars, extractVars, buildVars, shellVars>>

\* mutant: getStatus saves the progress it reports
GetStatus_SavesProgress ==
  /\ bpc \in {"constructed", "done"}
  /\ LET pending == getPendingKeywords(progress)
         processed == Len(progress.processedKeywords)
     IN status' = [ processed |-> processed,
                    pending |-> Len(pending),
                    total |-> processed + Len(pending),
                    currentBatch |-> progress.currentBatch,
                    totalBatches |-> progress.totalBatches,
                    status |-> progress.status,
                    nextRun |-> IF progress.lastRun # <<>> /\ Len(pending) > 0
                                THEN <<progress.lastRun[1] + BATCH_INTERVAL_MINUTES>>
                                ELSE <<>>,
                    startedAt |-> progress.startedAt ]
  /\ progressFile' = <<progress>>
  /\ UNCHANGED <<keywordFile, apiKeyFile, batchFile, articlesFile, cacheFile, now,
                 batchVars, pipeVars, envVars, stepVars, dateVars, extractVars, buildVars, shellVars>>

\* getStatus, called on a constructed BatchGenerator before runBatch (main, the
\* status script) or after it returned (build-manager)
GetStatus ==
  /\ bpc \in {"constructed", "done"}
  /\ LET pending == getPendingKeywords(progress)
         processed == Len(progress.processedKeywords)
     IN status' = [ processed |-> processed,
                    pending |-> Len(pending),
                    total |-> processed + Len(pending),
                    currentBatch |-> progress.currentBatch,
                    totalBatches |-> progress.totalBatches,
                    status |-> progress.status,
                    nextRun |-> IF progress.lastRun # <<>> /\ Len(pending) > 0
                                THEN <<progress.lastRun[1] + BATCH_INTERVAL_MINUTES>>
                                ELSE <<>>,
                    startedAt |-> progress.startedAt ]
  /\ UNCHANGED <<diskVars, now, batchVars, pipeVars, envVars, stepVars, dateVars,
                 extractVars, buildVars, shellVars>>

\* the status script ends after it printed the status: runBatch is not called
StatusScriptExit ==
  /\ bpc = "constructed"
  /\ status # NoStatus
  /\ bpc' = "none"
  /\ progress' = FreshProgress(0)
  /\ UNCHANGED <<batchKeywords, batchResult, diskVars, now, pipeVars, envVars, stepVars,
                 dateVars, statusVars, extractVars, buildVars, shellVars>>

\* -------------------------------------------------- generate-content.js
loadCache == IF readable(cacheFile) THEN cacheFile[1] ELSE EmptyCache

getNewKeywords(currentKeywords, c) ==
  SelectSeq(currentKeywords, LAMBDA k : ~includes(c.generatedKeywords, trim(k)))

\* the batch file's keywords; none when the file is absent
readBatchFile == IF readable(batchFile) THEN readLines(batchFile[1]) ELSE <<>>

\* mutant: the run takes keyword.txt whatever the batch file holds
readKeywords_IgnoresBatchFile == readLines(keywordFile)

\* the keywords a run works on: the batch file's, or else those of keyword.txt
readKeywords == IF Len(readBatchFile) > 0 THEN readBatchFile ELSE readLines(keywordFile)

\* mutant: the run starts from an empty list whatever the store holds
loadArticles_StartsEmpty == <<>>

\* public/articles.json as the run loads it; none when the file is absent
loadArticles == IF articlesFile # <<>> THEN articlesFile[1] ELSE <<>>

\* the article committed for a keyword
Article(keyword) == [keyword |-> keyword]

\* the in-memory state a finished incrementalGenerate leaves behind
PipelineMemoryCleared ==
  /\ isBatch' = FALSE
  /\ cache' = EmptyCache
  /\ currentHash' = <<>>
  /\ newKeywords' = <<>>
  /\ existingKeywords' = <<>>
  /\ allArticles' = <<>>
  /\ generatedCount' = 0
  /\ kwIndex' = 0

\* node ./scripts/generate-content.js outside a batch (build-manager, npm run generate)
StandardRun ==
  /\ bpc = "none"
  /\ ppc = "none"
  /\ ppc' = "start"
  /\ UNCHANGED <<diskVars, now, batchVars, keywords, isBatch, cache, currentHash,
                 newKeywords, existingKeywords, allArticles, generatedCount, kwIndex,
                 result, envVars>>
  /\ UNCHANGED <<stepVars, dateVars, statusVars, extractVars, buildVars, shellVars>>

\* mutant: a batch run is short-circuited too
noChanges_InBatchToo(batchMode, hash, c) == <<hash>> = c.lastHash

\* !isBatch && currentHash === cache.lastHash: the run stops before the ledger is read
noChanges(batchMode, hash, c) == ~batchMode /\ <<hash>> = c.lastHash

\* incrementalGenerate up to the call of processNewKeywords
PipelineStart ==
  /\ ppc = "start"
  /\ LET useBatch == Len(readBatchFile) > 0
         kws == readKeywords
         loaded == loadCache
         hash == getKeywordsHash(join(kws))
         fresh == getNewKeywords(kws, loaded)
     IN /\ keywords' = kws
        /\ IF kws = <<>>
           THEN /\ result' = [generated |-> 0, skipped |-> 0, reason |-> "no_keywords"]
                /\ ppc' = "exit0"
                /\ PipelineMemoryCleared
                /\ UNCHANGED cacheFile
           ELSE IF noChanges(useBatch, hash, loaded)
           THEN /\ result' = [generated |-> 0, skipped |-> Len(kws), reason |-> "no_changes"]
                /\ ppc' = "exit0"
                /\ PipelineMemoryCleared
                /\ UNCHANGED cacheFile
           ELSE IF fresh = <<>>
           THEN /\ cacheFile' = <<[loaded EXCEPT !.lastHash = <<hash>>]>>
                /\ result' = [generated |-> 0, skipped |-> Len(loaded.generatedKeywords),
                              reason |-> "no_new_keywords"]
                /\ ppc' = "exit0"
                /\ PipelineMemoryCleared
           ELSE IF apiKeyFile = "absent"
           THEN \* readFile throws ENOENT, which the outer catch turns into a result
                /\ result' = [generated |-> 0, skipped |-> 0, reason |-> "no_keywords"]
                /\ ppc' = "exit0"
                /\ PipelineMemoryCleared
                /\ UNCHANGED cacheFile
           ELSE IF apiKeyFile = "novalid"
           THEN \* thrown to main, which exits with 1
                /\ result' = [generated |-> 0, skipped |-> 0, reason |-> "error"]
                /\ ppc' = "exit1"
                /\ PipelineMemoryCleared
                /\ UNCHANGED cacheFile
           ELSE /\ isBatch' = useBatch
                /\ cache' = loaded
                /\ currentHash' = <<hash>>
                /\ newKeywords' = fresh
                /\ existingKeywords' = loaded.generatedKeywords
                /\ allArticles' = loadArticles
                /\ generatedCount' = 0
                /\ kwIndex' = 1
                /\ ppc' = "processing"
                /\ UNCHANGED <<cacheFile, result>>
  /\ UNCHANGED <<keywordFile, apiKeyFile, progressFile, batchFile, articlesFile, now,
                 batchVars, envVars>>
  /\ UNCHANGED <<stepVars, dateVars, statusVars, extractVars, buildVars, shellVars>>

\* processNewKeywords, one round of its loop: the keyword's steps succeed and the
\* article is pushed and the store rewritten, or a step throws and it is skipped
ProcessKeyword(ok) ==
  /\ ppc = "processing"
  /\ kwIndex <= Len(newKeywords)
  /\ LET keyword == trim(newKeywords[kwIndex])
     IN IF ok
        THEN /\ allArticles' = Append(allArticles, Article(keyword))
             /\ generatedCount' = generatedCount + 1
             /\ articlesFile' = <<allArticles'>>
             /\ UNCHANGED faults
        ELSE /\ faults < MaxFaults
             /\ faults' = faults + 1
             /\ UNCHANGED <<allArticles, generatedCount, articlesFile>>
  /\ kwIndex' = kwIndex + 1
  /\ UNCHANGED <<keywordFile, apiKeyFile, progressFile, batchFile, cacheFile, now,
                 batchVars, ppc, keywords, isBatch, cache, currentHash, newKeywords,
                 existingKeywords, result, adds>>
  /\ UNCHANGED <<stepVars, dateVars, statusVars, extractVars, buildVars, shellVars>>

\* mutant: the new keywords are not added to the cache
updatedCache_KeepsOld(c, existing, fresh, hash) ==
  [c EXCEPT !.generatedKeywords = uniqueSeq(existing), !.lastHash = hash]

\* the cache incrementalGenerate saves after processNewKeywords
updatedCache(c, existing, fresh, hash) ==
  [c EXCEPT !.generatedKeywords = uniqueSeq(existing \o fresh), !.lastHash = hash]

\* incrementalGenerate after processNewKeywords returned
PipelineFinish ==
  /\ ppc = "processing"
  /\ kwIndex > Len(newKeywords)
  /\ cacheFile' = <<updatedCache(cache, existingKeywords, newKeywords, currentHash)>>
  /\ result' = [generated |-> generatedCount, skipped |-> Len(existingKeywords),
                reason |-> "success"]
  /\ ppc' = "exit0"
  /\ PipelineMemoryCleared
  /\ UNCHANGED <<keywordFile, apiKeyFile, progressFile, batchFile, articlesFile, now,
                 batchVars, keywords, envVars>>
  /\ UNCHANGED <<stepVars, dateVars, statusVars, extractVars, buildVars, shellVars>>

\* the generate-content.js process is killed while it processes keywords
PipelineCrash ==
  /\ ppc = "processing"
  /\ faults < MaxFaults
  /\ faults' = faults + 1
  /\ result' = [generated |-> 0, skipped |-> 0, reason |-> "killed"]
  /\ ppc' = "exit1"
  /\ PipelineMemoryCleared
  /\ UNCHANGED <<diskVars, now, batchVars, keywords, adds>>
  /\ UNCHANGED <<stepVars, dateVars, statusVars, extractVars, buildVars, shellVars>>

\* a standalone generate-content.js process is gone
PipelineReap ==
  /\ bpc = "none"
  /\ ppc \in {"exit0", "exit1"}
  /\ ppc' = "none"
  /\ UNCHANGED <<diskVars, now, batchVars, keywords, isBatch, cache, currentHash,
                 newKeywords, existingKeywords, allArticles, generatedCount, kwIndex,
                 result, envVars>>
  /\ UNCHANGED <<stepVars, dateVars, statusVars, extractVars, buildVars, shellVars>>

\* ------------------------------- ApiKeyManager and processNewKeywords
\* The keyword loop of processNewKeywords step by step, a step being what runs
\* between two awaited external calls, with the ApiKeyManager it is given.

\* the key lists new ApiKeyManager may be given; a key is named by its number
ApiKeyLists == { [j \in 1..n |-> j] : n \in 0..MaxKeys }

\* the keyword lists of a run, as keyword.txt holds them
StepKeywordFiles == { <<La>>, <<La, PaddedB>> }

\* e.message of a failed generateContent, by what it includes
FailureMessages == {"429", "API key not valid", "permission", "other"}

\* what result.response.text() holds for extractJson: a JSON object with the
\* long texts, one without them, or no JSON object at all
Responses == {"json", "json_notext", "nojson"}

\* the steps that call apiKeyManager.generate
GenerateSteps == {"analysis", "content", "deepDive", "importance"}

\* the detail the warning of a failed key shows
detailedError(message) ==
  CASE message = "429" -> "HTTP 429"
    [] message = "API key not valid" -> "HTTP 400"
    [] message = "permission" -> "HTTP 403"
    [] OTHER -> message

\* the state a step of the loop works on
stepState ==
  [ pc |-> stepPc, currentIndex |-> currentIndex, genI |-> genI, tried |-> tried,
    warning |-> warning,
    genResult |-> genResult, analysis |-> analysis, jsonResult |-> jsonResult,
    done |-> stepsDone,
    log |-> log, allArticles |-> allArticles, generatedCount |-> generatedCount,
    kwIndex |-> kwIndex, store |-> articlesFile, sinceCall |-> sinceCall ]

\* await delay(API_CALL_DELAY_MS), await delay(REQUEST_DELAY_MS)
delayed(s) == [s EXCEPT !.sinceCall = "delay"]

\* the loop goes on to the next keyword after a delay, or ends
nextKeyword(s) ==
  [s EXCEPT !.kwIndex = @ + 1,
            !.analysis = <<>>,
            !.jsonResult = <<>>,
            !.done = <<>>,
            !.genI = 0,
            !.pc = IF s.kwIndex + 1 <= Len(newKeywords) THEN "analysis" ELSE "none",
            !.sinceCall = IF s.kwIndex + 1 <= Len(newKeywords) THEN "delay" ELSE @]

\* mutant: the catch writes what the keyword has so far to the store
keywordFailed_WritesDraft(s) ==
  nextKeyword([s EXCEPT !.store = <<Append(s.allArticles,
                                           [keyword |-> trim(newKeywords[s.kwIndex])])>>,
                        !.log = Append(@, [keyword |-> trim(newKeywords[s.kwIndex]),
                                           level |-> "FAILED"])])

\* mutant: the catch gives the whole loop up
keywordFailed_EndsLoop(s) ==
  [s EXCEPT !.log = Append(@, [keyword |-> trim(newKeywords[s.kwIndex]),
                               level |-> "FAILED"]),
            !.kwIndex = Len(newKeywords) + 1,
            !.analysis = <<>>,
            !.jsonResult = <<>>,
            !.done = <<>>,
            !.genI = 0,
            !.pc = "none"]

\* the catch of the loop body: the keyword is skipped
keywordFailed(s) ==
  nextKeyword([s EXCEPT !.log = Append(@, [keyword |-> trim(newKeywords[s.kwIndex]),
                                           level |-> "FAILED"])])

\* the article is pushed, counted and the whole store written
keywordCommitted(s, imageUrl) ==
  LET article == [s.jsonResult[1] EXCEPT !.imageUrl = imageUrl]
      pushed == Append(s.allArticles, article)
  IN nextKeyword([s EXCEPT !.allArticles = pushed,
                           !.generatedCount = @ + 1,
                           !.store = <<pushed>>,
                           !.sinceCall = "nodelay",
                           !.log = Append(@, [keyword |-> trim(newKeywords[s.kwIndex]),
                                              level |-> "SUCCESS"])])

\* mutant: the importance text is rewritten before the deepDive text
afterReturn_RewritesSwapped(s, response) ==
  CASE s.pc = "analysis" ->
         IF response = "nojson" THEN keywordFailed(s)
         ELSE [s EXCEPT !.analysis = <<"analysis">>, !.done = Append(@, "analysis"),
                        !.pc = "content", !.genI = 0]
    [] s.pc = "content" ->
         IF response = "nojson" THEN keywordFailed(s)
         ELSE IF response = "json_notext"
         THEN [s EXCEPT !.jsonResult = <<[keyword |-> trim(newKeywords[s.kwIndex]),
                                          deepDive |-> "", importance |-> "",
                                          imageUrl |-> <<>>]>>,
                        !.done = @ \o <<"content", "deepDive", "importance">>,
                        !.pc = "image", !.genI = 0]
         ELSE [s EXCEPT !.jsonResult = <<[keyword |-> trim(newKeywords[s.kwIndex]),
                                          deepDive |-> "draft", importance |-> "draft",
                                          imageUrl |-> <<>>]>>,
                        !.done = Append(@, "content"),
                        !.pc = "importance", !.genI = 0]
    [] s.pc = "importance" ->
         [s EXCEPT !.jsonResult[1].importance = "rewritten",
                   !.done = Append(@, "importance"), !.pc = "deepDive", !.genI = 0]
    [] s.pc = "deepDive" ->
         [s EXCEPT !.jsonResult[1].deepDive = "rewritten", !.done = Append(@, "deepDive"),
                   !.pc = "image", !.genI = 0]

\* the caller's step after generate returned a result whose text is response
afterReturn(s, response) ==
  CASE s.pc = "analysis" ->
         IF response = "nojson" THEN keywordFailed(s)
         ELSE [s EXCEPT !.analysis = <<"analysis">>, !.done = Append(@, "analysis"),
                        !.pc = "content", !.genI = 0]
    [] s.pc = "content" ->
         IF response = "nojson" THEN keywordFailed(s)
         ELSE IF response = "json_notext"
         THEN [s EXCEPT !.jsonResult = <<[keyword |-> trim(newKeywords[s.kwIndex]),
                                          deepDive |-> "", importance |-> "",
                                          imageUrl |-> <<>>]>>,
                        !.done = @ \o <<"content", "deepDive", "importance">>,
                        !.pc = "image", !.genI = 0]
         ELSE [s EXCEPT !.jsonResult = <<[keyword |-> trim(newKeywords[s.kwIndex]),
                                          deepDive |-> "draft", importance |-> "draft",
                                          imageUrl |-> <<>>]>>,
                        !.done = Append(@, "content"),
                        !.pc = "deepDive", !.genI = 0]
    [] s.pc = "deepDive" ->
         [s EXCEPT !.jsonResult[1].deepDive = "rewritten", !.done = Append(@, "deepDive"),
                   !.pc = "importance", !.genI = 0]
    [] s.pc = "importance" ->
         [s EXCEPT !.jsonResult[1].importance = "rewritten",
                   !.done = Append(@, "importance"), !.pc = "image", !.genI = 0]

\* mutant: a rewrite that throws abandons the keyword like any other step
afterThrow_FailsKeyword(s) == keywordFailed(s)

\* the caller's step after generate threw: the loop's catch for the strategy and
\* the draft, uniquenessBooster's own catch (the text stays) for the rewrites
afterThrow(s) ==
  CASE s.pc \in {"analysis", "content"} -> keywordFailed(s)
    [] s.pc = "deepDive" ->
         [s EXCEPT !.done = Append(@, "deepDive"), !.pc = "importance", !.genI = 0]
    [] s.pc = "importance" ->
         [s EXCEPT !.done = Append(@, "importance"), !.pc = "image", !.genI = 0]

\* mutant: the cursor moves to the key that succeeded, not past it
attemptSucceeded_CursorStays(s, modelIndex) ==
  [s EXCEPT !.currentIndex = modelIndex % Len(models),
            !.tried = Append(IF s.genI = 0 THEN <<>> ELSE s.tried, modelIndex),
            !.warning = IF s.genI = 0 THEN <<>> ELSE @,
            !.genResult = <<"result", modelIndex>>]

\* mutant: after a success the cursor goes back to the first key
attemptSucceeded_CursorToFirst(s, modelIndex) ==
  [s EXCEPT !.currentIndex = 0,
            !.tried = Append(IF s.genI = 0 THEN <<>> ELSE s.tried, modelIndex),
            !.warning = IF s.genI = 0 THEN <<>> ELSE @,
            !.genResult = <<"result", modelIndex>>]

\* generate: the attempt with models[modelIndex] returned
attemptSucceeded(s, modelIndex) ==
  [s EXCEPT !.sinceCall = "nodelay",
            !.currentIndex = (modelIndex + 1) % Len(models),
            !.tried = Append(IF s.genI = 0 THEN <<>> ELSE s.tried, modelIndex),
            !.warning = IF s.genI = 0 THEN <<>> ELSE @,
            !.genResult = <<"result", modelIndex>>]

\* mutant: a failed key is tried again
attemptFailed_SameKeyAgain(s, modelIndex, message) ==
  [s EXCEPT !.tried = Append(IF s.genI = 0 THEN <<>> ELSE s.tried, modelIndex),
            !.warning = <<detailedError(message)>>,
            !.currentIndex = IF s.genI + 1 >= Len(models) THEN @
                             ELSE (@ + Len(models) - 1) % Len(models),
            !.genI = @ + 1,
            !.genResult = IF s.genI + 1 >= Len(models) THEN <<"exhausted">> ELSE <<>>]

\* mutant: past the last key the loop starts over instead of throwing
attemptFailed_StartsOver(s, modelIndex, message) ==
  [s EXCEPT !.tried = Append(IF s.genI = 0 THEN <<>> ELSE s.tried, modelIndex),
            !.warning = <<detailedError(message)>>,
            !.genI = (@ + 1) % Len(models),
            !.genResult = <<>>]

\* mutant: a failed attempt moves the cursor past the key that failed
attemptFailed_CursorMoves(s, modelIndex, message) ==
  [s EXCEPT !.sinceCall = "nodelay",
            !.currentIndex = (modelIndex + 1) % Len(models),
            !.tried = Append(IF s.genI = 0 THEN <<>> ELSE s.tried, modelIndex),
            !.warning = <<detailedError(message)>>,
            !.genI = @ + 1,
            !.genResult = IF s.genI + 1 >= Len(models) THEN <<"exhausted">> ELSE <<>>]

\* generate: the attempt with models[modelIndex] threw; the loop goes on, and
\* past the last key generate throws
attemptFailed(s, modelIndex, message) ==
  [s EXCEPT !.sinceCall = "nodelay",
            !.tried = Append(IF s.genI = 0 THEN <<>> ELSE s.tried, modelIndex),
            !.warning = <<detailedError(message)>>,
            !.genI = @ + 1,
            !.genResult = IF s.genI + 1 >= Len(models) THEN <<"exhausted">> ELSE <<>>]

\* the variables take the values of the state s
StepStateBecomes(s) ==
  /\ stepPc' = s.pc
  /\ currentIndex' = s.currentIndex
  /\ genI' = s.genI
  /\ tried' = s.tried
  /\ warning' = s.warning
  /\ genResult' = s.genResult
  /\ analysis' = s.analysis
  /\ jsonResult' = s.jsonResult
  /\ stepsDone' = s.done
  /\ log' = s.log
  /\ allArticles' = s.allArticles
  /\ generatedCount' = s.generatedCount
  /\ kwIndex' = s.kwIndex
  /\ articlesFile' = s.store
  /\ sinceCall' = s.sinceCall

\* what a step of the loop leaves alone
StepFrame ==
  UNCHANGED <<keywordFile, apiKeyFile, progressFile, batchFile, cacheFile, now,
              batchVars, ppc, keywords, isBatch, cache, currentHash, newKeywords,
              existingKeywords, result, envVars, apiKeys, models, dateVars,
              statusVars, extractVars, buildVars, shellVars>>

\* mutant: the constructor takes any list
ManagerConstruct_AcceptsEmpty ==
  /\ stepPc = "construct"
  /\ models' = apiKeys
  /\ stepPc' = "analysis"
  /\ UNCHANGED <<result, ppc, isBatch, cache, currentHash, newKeywords,
                 existingKeywords, allArticles, generatedCount, kwIndex>>
  /\ UNCHANGED <<diskVars, now, batchVars, keywords, envVars, apiKeys, currentIndex,
                 genI, tried, warning, genResult, analysis, jsonResult, stepsDone,
                 log, sinceCall, dateVars, statusVars, extractVars, buildVars, shellVars>>

\* new ApiKeyManager(apiKeys), and the loop's entry; an empty list throws, which
\* incrementalGenerate passes on to main
ManagerConstruct ==
  /\ stepPc = "construct"
  /\ IF Len(apiKeys) = 0
     THEN /\ models' = <<>>
          /\ stepPc' = "none"
          /\ result' = [generated |-> 0, skipped |-> 0, reason |-> "error"]
          /\ ppc' = "exit1"
          /\ PipelineMemoryCleared
     ELSE /\ models' = apiKeys
          /\ stepPc' = "analysis"
          /\ UNCHANGED <<result, ppc, isBatch, cache, currentHash, newKeywords,
                         existingKeywords, allArticles, generatedCount, kwIndex>>
  /\ UNCHANGED <<diskVars, now, batchVars, keywords, envVars, apiKeys, currentIndex,
                 genI, tried, warning, genResult, analysis, jsonResult, stepsDone,
                 log, sinceCall, dateVars, statusVars, extractVars, buildVars, shellVars>>

\* generate, one attempt that returns, the delay its caller awaits, and the
\* caller's step that follows
GenerateReturns(response) ==
  /\ stepPc \in GenerateSteps
  /\ genI < Len(models)
  /\ LET modelIndex == (currentIndex + genI) % Len(models)
     IN StepStateBecomes(afterReturn(delayed(attemptSucceeded(stepState, modelIndex)),
                                     response))
  /\ StepFrame

\* generate, one attempt that throws; after the last key generate throws and
\* the caller's catch runs
GenerateFails(message) ==
  /\ stepPc \in GenerateSteps
  /\ genI < Len(models)
  /\ LET modelIndex == (currentIndex + genI) % Len(models)
         failed == attemptFailed(stepState, modelIndex, message)
     IN StepStateBecomes(IF failed.genI >= Len(models) THEN afterThrow(failed)
                         ELSE failed)
  /\ StepFrame

\* fetchImageFromPexels found an image or returned null; the article is committed
FetchImage(imageUrl) ==
  /\ stepPc = "image"
  /\ StepStateBecomes(keywordCommitted(stepState, imageUrl))
  /\ StepFrame

\* --------------------------------------------------------- environment
\* Time passes between invocations.  Only the time since lastRun is ever read,
\* so the clock stops once the interval has elapsed.
Tick ==
  /\ bpc = "none"
  /\ ppc = "none"
  /\ readable(progressFile)
  /\ progressFile[1].lastRun # <<>>
  /\ now - progressFile[1].lastRun[1] < BATCH_INTERVAL_MINUTES
  /\ now' = now + TickMinutes
  /\ UNCHANGED <<diskVars, batchVars, pipeVars, envVars>>
  /\ UNCHANGED <<stepVars, dateVars, statusVars, extractVars, buildVars, shellVars>>

\* keyword.txt is edited between runs
AddKeyword(line) ==
  /\ bpc = "none"
  /\ ppc = "none"
  /\ adds < MaxAdds
  /\ adds' = adds + 1
  /\ keywordFile' = Append(keywordFile, line)
  /\ UNCHANGED <<apiKeyFile, progressFile, batchFile, articlesFile, cacheFile, now,
                 batchVars, pipeVars, faults>>
  /\ UNCHANGED <<stepVars, dateVars, statusVars, extractVars, buildVars, shellVars>>

Next ==
  \/ Construct
  \/ RunBatchGate
  \/ PrepareBatch
  \/ BatchCompleted
  \/ BatchFailed
  \/ BatchExit
  \/ StandardRun
  \/ PipelineStart
  \/ \E ok \in BOOLEAN : ProcessKeyword(ok)
  \/ PipelineFinish
  \/ PipelineCrash
  \/ PipelineReap
  \/ Tick
  \/ \E line \in AddableLines : AddKeyword(line)

Spec == Init /\ [][Next]_vars

\* A backlog drained by batch runs alone: keyword.txt is never edited and
\* generate-content.js runs only as runBatch's child.
DrainNext ==
  \/ Construct
  \/ RunBatchGate
  \/ PrepareBatch
  \/ BatchCompleted
  \/ BatchFailed
  \/ BatchExit
  \/ PipelineStart
  \/ \E ok \in BOOLEAN : ProcessKeyword(ok)
  \/ PipelineFinish
  \/ PipelineCrash
  \/ Tick

\* Batches keep being run and every started step runs on (weak fairness of the
\* whole), and time keeps passing between invocations (Tick is enabled only
\* between them, hence strong fairness).
DrainSpec == Init /\ [][DrainNext]_vars /\ WF_vars(DrainNext) /\ SF_vars(Tick)

\* the cache file, the progress file or the batch file is deleted, or damaged
\* so that it cannot be read, between two runs
FileLost(file, content) ==
  /\ bpc = "none"
  /\ ppc = "none"
  /\ faults < MaxFaults
  /\ faults' = faults + 1
  /\ cacheFile' = IF file = "cache" THEN content ELSE cacheFile
  /\ progressFile' = IF file = "progress" THEN content ELSE progressFile
  /\ batchFile' = IF file = "batch" THEN content ELSE batchFile
  /\ <<cacheFile', progressFile', batchFile'>> # <<cacheFile, progressFile, batchFile>>
  /\ UNCHANGED <<keywordFile, apiKeyFile, articlesFile, now, batchVars, pipeVars, adds,
                 stepVars, dateVars, statusVars, extractVars, buildVars, shellVars>>

\* keyword.txt of the runs that find files missing
LostFileKeywordFiles == { <<La, PaddedB>>, <<La, Lb, Lc, Ld, Le, Lf>> }

\* Runs that find the cache file, the progress file and the batch file missing
\* or unreadable, at the first run or later.
LostFileInit ==
  /\ keywordFile \in LostFileKeywordFiles
  /\ apiKeyFile = "valid"
  /\ progressFile \in {<<>>, Unreadable}
  /\ batchFile \in {<<>>, Unreadable}
  /\ articlesFile = <<>>
  /\ cacheFile \in {<<>>, Unreadable}
  /\ now = 0
  /\ bpc = "none"
  /\ progress = FreshProgress(0)
  /\ batchKeywords = <<>>
  /\ batchResult = NoBatchResult
  /\ status = NoStatus
  /\ ppc = "none"
  /\ keywords = <<>>
  /\ isBatch = FALSE
  /\ cache = EmptyCache
  /\ currentHash = <<>>
  /\ newKeywords = <<>>
  /\ existingKeywords = <<>>
  /\ allArticles = <<>>
  /\ generatedCount = 0
  /\ kwIndex = 0
  /\ result = NoResult
  /\ adds = 0
  /\ faults = 0
  /\ StepIdle
  /\ DateIdle
  /\ ExtractIdle
  /\ BuildIdle
  /\ rmFails = FALSE

LostFileNext ==
  \/ Construct
  \/ RunBatchGate
  \/ PrepareBatch
  \/ BatchCompleted
  \/ BatchExit
  \/ StandardRun
  \/ PipelineStart
  \/ ProcessKeyword(TRUE)
  \/ PipelineFinish
  \/ PipelineReap
  \/ Tick
  \/ \E file \in {"cache", "progress", "batch"} :
       \E content \in {<<>>, Unreadable} : FileLost(file, content)

LostFileSpec == LostFileInit /\ [][LostFileNext]_vars

\* keyword.txt of the runs whose batch file is cleaned up: one batch, two batches
CleanupKeywordFiles == { <<La, Lb, Lc>>, <<La, Lb, Lc, Ld, Le, Lf>> }

\* Batch runs and standalone pipeline runs over a fixed keyword.txt, in a
\* working directory where rm removes the batch file and in one where it fails.
CleanupInit ==
  /\ keywordFile \in CleanupKeywordFiles
  /\ apiKeyFile = "valid"
  /\ progressFile = <<>>
  /\ batchFile = <<>>
  /\ articlesFile = <<>>
  /\ cacheFile = <<>>
  /\ now = 0
  /\ bpc = "none"
  /\ progress = FreshProgress(0)
  /\ batchKeywords = <<>>
  /\ batchResult = NoBatchResult
  /\ status = NoStatus
  /\ ppc = "none"
  /\ keywords = <<>>
  /\ isBatch = FALSE
  /\ cache = EmptyCache
  /\ currentHash = <<>>
  /\ newKeywords = <<>>
  /\ existingKeywords = <<>>
  /\ allArticles = <<>>
  /\ generatedCount = 0
  /\ kwIndex = 0
  /\ result = NoResult
  /\ adds = 0
  /\ faults = 0
  /\ StepIdle
  /\ DateIdle
  /\ ExtractIdle
  /\ BuildIdle
  /\ rmFails \in BOOLEAN

CleanupNext ==
  \/ Construct
  \/ RunBatchGate
  \/ PrepareBatch
  \/ BatchCompleted
  \/ BatchFailed
  \/ BatchExit
  \/ StandardRun
  \/ PipelineStart
  \/ \E ok \in BOOLEAN : ProcessKeyword(ok)
  \/ PipelineFinish
  \/ PipelineCrash
  \/ PipelineReap
  \/ Tick

CleanupSpec == CleanupInit /\ [][CleanupNext]_vars

\* resetProgress, called on a constructed BatchGenerator by a maintenance
\* script that then ends: a fresh progress is saved and the batch file removed
ResetProgress ==
  /\ bpc = "constructed"
  /\ faults < MaxFaults
  /\ faults' = faults + 1
  /\ progress' = FreshProgress(now)
  /\ progressFile' = <<progress'>>
  /\ batchFile' = cleanupBatchFile
  /\ bpc' = "done"
  /\ UNCHANGED <<keywordFile, apiKeyFile, articlesFile, cacheFile, now, batchKeywords,
                 batchResult, pipeVars, adds, stepVars, dateVars, statusVars,
                 extractVars, buildVars, shellVars>>

\* Batch runs, status calls, edits of keyword.txt and resets of the progress.
ResetNext ==
  \/ DrainNext
  \/ GetStatus
  \/ StatusScriptExit
  \/ \E line \in AddableLines : AddKeyword(line)
  \/ ResetProgress

ResetSpec == Init /\ [][ResetNext]_vars

\* Batch runs over a fixed keyword.txt, the status being asked for before and
\* after runBatch and by the status script.
StatusNext ==
  \/ DrainNext
  \/ GetStatus
  \/ StatusScriptExit

StatusSpec == Init /\ [][StatusNext]_vars

\* keyword.txt with two entries, in lower case, and with an upper-case letter
\* and padding
TwoKeywordFiles == { <<La, Lb>>, <<UpperA, PaddedB>> }

\* A first batch run over a keyword.txt of two entries: nothing was generated
\* before (no store, no cache, no progress file), the key file is usable.
EndToEndInit ==
  /\ keywordFile \in TwoKeywordFiles
  /\ apiKeyFile = "valid"
  /\ progressFile = <<>>
  /\ batchFile = <<>>
  /\ articlesFile = <<>>
  /\ cacheFile = <<>>
  /\ now = 0
  /\ bpc = "none"
  /\ progress = FreshProgress(0)
  /\ batchKeywords = <<>>
  /\ batchResult = NoBatchResult
  /\ status = NoStatus
  /\ ppc = "none"
  /\ keywords = <<>>
  /\ isBatch = FALSE
  /\ cache = EmptyCache
  /\ currentHash = <<>>
  /\ newKeywords = <<>>
  /\ existingKeywords = <<>>
  /\ allArticles = <<>>
  /\ generatedCount = 0
  /\ kwIndex = 0
  /\ result = NoResult
  /\ adds = 0
  /\ faults = 0
  /\ StepIdle
  /\ DateIdle
  /\ ExtractIdle
  /\ BuildIdle
  /\ rmFails = FALSE

EndToEndSpec == EndToEndInit /\ [][DrainNext]_vars

\* One standalone run of generate-content.js on a fresh disk, from the point
\* where incrementalGenerate constructs the ApiKeyManager, its keyword loop
\* followed step by step.
StepInit ==
  /\ keywordFile \in StepKeywordFiles
  /\ apiKeyFile = "valid"
  /\ progressFile = <<>>
  /\ batchFile = <<>>
  /\ articlesFile = <<>>
  /\ cacheFile = <<>>
  /\ now = 0
  /\ bpc = "none"
  /\ progress = FreshProgress(0)
  /\ batchKeywords = <<>>
  /\ batchResult = NoBatchResult
  /\ status = NoStatus
  /\ ppc = "processing"
  /\ keywords = readKeywords
  /\ isBatch = FALSE
  /\ cache = loadCache
  /\ currentHash = <<getKeywordsHash(join(readKeywords))>>
  /\ newKeywords = getNewKeywords(readKeywords, loadCache)
  /\ existingKeywords = loadCache.generatedKeywords
  /\ allArticles = loadArticles
  /\ generatedCount = 0
  /\ kwIndex = 1
  /\ result = NoResult
  /\ adds = 0
  /\ faults = 0
  /\ stepPc = "construct"
  /\ apiKeys \in ApiKeyLists
  /\ models = <<>>
  /\ currentIndex = 0
  /\ genI = 0
  /\ tried = <<>>
  /\ warning = <<>>
  /\ genResult = <<>>
  /\ analysis = <<>>
  /\ jsonResult = <<>>
  /\ stepsDone = <<>>
  /\ log = <<>>
  /\ sinceCall = "nocall"
  /\ DateIdle
  /\ ExtractIdle
  /\ BuildIdle
  /\ rmFails = FALSE

StepNext ==
  \/ ManagerConstruct
  \/ \E response \in Responses : GenerateReturns(response)
  \/ \E message \in FailureMessages : GenerateFails(message)
  \/ \E imageUrl \in {<<>>, <<"url">>} : FetchImage(imageUrl)
  \/ PipelineFinish

StepSpec == StepInit /\ [][StepNext]_vars

\* Every awaited call returns or throws, and the run is carried on after it.
StepLiveSpec == StepInit /\ [][StepNext]_vars /\ WF_vars(StepNext)

\* ------------------------------------------------- publish-date schedule
\* The date computation of processNewKeywords.  A date is kept as its distance
\* from today in days, which is what setDate(getDate() + dayOffset) adds.

\* what process.env may hold for the two settings: unset, or a number
EnvBackdateValues == { <<>>, <<0>>, <<1>>, <<3>>, <<5>> }
EnvFutureValues == { <<>>, <<0>>, <<2>>, <<30>>, <<-3>>, <<-5>> }

\* keywordsToGenerate.length and allArticles.length at the call
PendingCounts == {1, 3, 33, 70}
ExistingCounts == {0, 2}

\* parseInt(process.env.X) || fallback: NaN (unset) and 0 give the fallback
parseIntOr(env, fallback) == IF env = <<>> \/ env[1] = 0 THEN fallback ELSE env[1]

BACKDATE_DAYS == parseIntOr(envBackdate, 3)
FUTURE_SCHEDULE_DAYS == parseIntOr(envFuture, 30)

\* Math.floor(a / b) and Math.ceil(a / b) of the real quotient, b # 0
floorDiv(a, b) == IF b > 0 THEN a \div b ELSE (0 - a) \div (0 - b)
ceilDiv(a, b) == 0 - floorDiv(0 - a, b)

\* Math.ceil(n / totalScheduleSpan) || 1, n > 0: a division by 0 gives Infinity,
\* which stays; 0 and -0 give 1; a negative quotient stays
postsPerDay(n, totalScheduleSpan) ==
  IF totalScheduleSpan = 0 THEN [finite |-> FALSE, value |-> 0]
  ELSE IF ceilDiv(n, totalScheduleSpan) = 0 THEN [finite |-> TRUE, value |-> 1]
  ELSE [finite |-> TRUE, value |-> ceilDiv(n, totalScheduleSpan)]

\* Math.floor((keywordCount - 1) / postsPerDay)
daySlot(count, perDay) ==
  IF perDay.finite THEN floorDiv(count - 1, perDay.value) ELSE 0

\* daySlot - (BACKDATE_DAYS > 0 ? BACKDATE_DAYS - 1 : 0)
dayOffsetOf(count, n) ==
  daySlot(count, postsPerDay(n, BACKDATE_DAYS + FUTURE_SCHEDULE_DAYS))
    - (IF BACKDATE_DAYS > 0 THEN BACKDATE_DAYS - 1 ELSE 0)

\* processNewKeywords is entered with some settings, keywords and store
DateInit ==
  /\ keywordFile = <<>>
  /\ apiKeyFile = "valid"
  /\ progressFile = <<>>
  /\ batchFile = <<>>
  /\ articlesFile = <<>>
  /\ cacheFile = <<>>
  /\ now = 0
  /\ bpc = "none"
  /\ progress = FreshProgress(0)
  /\ batchKeywords = <<>>
  /\ batchResult = NoBatchResult
  /\ status = NoStatus
  /\ ppc = "processing"
  /\ keywords = <<>>
  /\ isBatch = FALSE
  /\ cache = EmptyCache
  /\ currentHash = <<>>
  /\ newKeywords = <<>>
  /\ existingKeywords = <<>>
  /\ allArticles = <<>>
  /\ generatedCount = 0
  /\ kwIndex = 0
  /\ result = NoResult
  /\ adds = 0
  /\ faults = 0
  /\ StepIdle
  /\ envBackdate \in EnvBackdateValues
  /\ envFuture \in EnvFutureValues
  /\ pendingCount \in PendingCounts
  /\ keywordCount \in ExistingCounts
  /\ loopI = 0
  /\ dayOffset = <<>>
  /\ ExtractIdle
  /\ BuildIdle
  /\ rmFails = FALSE

\* one iteration of the loop as far as the date: keywordCount is counted for
\* every keyword, the date is computed once the strategy step has succeeded
DateStep(strategyOk) ==
  /\ loopI < pendingCount
  /\ keywordCount' = keywordCount + 1
  /\ dayOffset' = IF strategyOk THEN <<dayOffsetOf(keywordCount', pendingCount)>> ELSE <<>>
  /\ loopI' = loopI + 1
  /\ UNCHANGED <<diskVars, now, batchVars, pipeVars, envVars, stepVars, envBackdate,
                 envFuture, pendingCount, statusVars, extractVars, buildVars, shellVars>>

DateNext == \E strategyOk \in BOOLEAN : DateStep(strategyOk)

DateSpec == DateInit /\ [][DateNext]_vars

\* ----------------------------------------------------------- extractJson
\* A model answer is a sequence of characters: the braces, "k" for a key with
\* its colon, "1" for a literal value, "w" for any other text.
TextChars == {"{", "}", "k", "1", "w"}

RECURSIVE textsOfLen(_)
textsOfLen(n) ==
  IF n = 0 THEN {<<>>}
  ELSE {Append(t, c) : t \in textsOfLen(n - 1), c \in TextChars}

Texts == UNION {textsOfLen(n) : n \in 0..MaxTextLen}

\* the positions of a character in a text
positionsOf(t, c) == {j \in 1..Len(t) : t[j] = c}

\* text.match(/\{[\s\S]*\}/): from the first "{" to the last "}" of the text,
\* the star being greedy; null (<<>>) when no "}" follows the first "{"
jsonMatch(t) ==
  LET opens == positionsOf(t, "{")
      closes == positionsOf(t, "}")
      first == CHOOSE j \in opens : \A q \in opens : j <= q
      last == CHOOSE j \in closes : \A q \in closes : q <= j
  IN IF opens = {} \/ closes = {} THEN <<>>
     ELSE IF last < first THEN <<>>
     ELSE <<SubSeq(t, first, last)>>

\* the texts JSON.parse accepts, in the reduced alphabet: a literal, or an
\* object that is empty or holds one key with a value
RECURSIVE isJsonValue(_)
isJsonValue(t) ==
  \/ t = <<"1">>
  \/ /\ Len(t) >= 2
     /\ t[1] = "{"
     /\ t[Len(t)] = "}"
     /\ \/ Len(t) = 2
        \/ /\ t[2] = "k"
           /\ isJsonValue(SubSeq(t, 3, Len(t) - 1))

\* what extractJson returns: null, or the object parsed
JsonNull == [ok |-> FALSE, value |-> <<>>]
JsonObject(t) == [ok |-> TRUE, value |-> t]

extractJson(t) ==
  LET match == jsonMatch(t)
  IN IF match = <<>> THEN JsonNull
     ELSE IF isJsonValue(match[1]) THEN JsonObject(match[1])
     ELSE JsonNull

\* extractJson is handed some answer
ExtractInit ==
  /\ keywordFile = <<>>
  /\ apiKeyFile = "valid"
  /\ progressFile = <<>>
  /\ batchFile = <<>>
  /\ articlesFile = <<>>
  /\ cacheFile = <<>>
  /\ now = 0
  /\ bpc = "none"
  /\ progress = FreshProgress(0)
  /\ batchKeywords = <<>>
  /\ batchResult = NoBatchResult
  /\ status = NoStatus
  /\ ppc = "processing"
  /\ keywords = <<>>
  /\ isBatch = FALSE
  /\ cache = EmptyCache
  /\ currentHash = <<>>
  /\ newKeywords = <<>>
  /\ existingKeywords = <<>>
  /\ allArticles = <<>>
  /\ generatedCount = 0
  /\ kwIndex = 0
  /\ result = NoResult
  /\ adds = 0
  /\ faults = 0
  /\ StepIdle
  /\ DateIdle
  /\ text \in Texts
  /\ extracted = <<>>
  /\ BuildIdle
  /\ rmFails = FALSE

\* extractJson(text) returns
Extract ==
  /\ extracted = <<>>
  /\ extracted' = <<extractJson(text)>>
  /\ UNCHANGED <<diskVars, now, batchVars, pipeVars, envVars, stepVars, dateVars,
                 statusVars, text, buildVars, shellVars>>

ExtractNext == Extract

ExtractSpec == ExtractInit /\ [][ExtractNext]_vars

\* ------------------------------------------------------- build-manager.js
\* npm run build: BuildManager.build runs a batch and builds the site when the
\* batch brought new articles, or runs the standard build.  The post-build
\* tasks (prerender, sitemap, RSS) touch none of the files kept here.

\* keyword.txt holds a line that is not blank
hasKeywords == Len(readLines(keywordFile)) > 0

\* batch mode is on when keyword.txt has keywords and the progress file exists
shouldUseBatch == hasKeywords /\ progressFile # <<>>

\* what getStatus returns for the progress in memory
getStatus(prog) ==
  LET pending == getPendingKeywords(prog)
      processed == Len(prog.processedKeywords)
  IN [ processed |-> processed,
       pending |-> Len(pending),
       total |-> processed + Len(pending),
       currentBatch |-> prog.currentBatch,
       totalBatches |-> prog.totalBatches,
       status |-> prog.status,
       nextRun |-> IF prog.lastRun # <<>> /\ Len(pending) > 0
                   THEN <<prog.lastRun[1] + BATCH_INTERVAL_MINUTES>>
                   ELSE <<>>,
       startedAt |-> prog.startedAt ]

\* mutant: the site is built only once the backlog is drained
shouldBuild_OnlyWhenDrained(r) == r.reason = "all_completed"

\* result.processed > 0 && result.shouldDeploy
shouldBuild(r) == r.processed > 0 /\ r.shouldDeploy

\* build(): the mode is chosen
Build ==
  /\ mpc = "none"
  /\ bpc = "none"
  /\ ppc = "none"
  /\ mpc' = IF shouldUseBatch THEN "batch" ELSE "standard"
  /\ siteBuilds' = 0
  /\ UNCHANGED <<diskVars, now, batchVars, pipeVars, envVars, stepVars, dateVars,
                 statusVars, extractVars, shellVars>>

\* runBatchBuild after runBatch returned: vite build is called when the batch
\* brought articles, and the status is read after it; a build that throws makes
\* the catch fall back to the standard build
BatchBuildSite(ok) ==
  /\ mpc = "batch"
  /\ bpc = "done"
  /\ IF shouldBuild(batchResult)
     THEN /\ siteBuilds' = siteBuilds + 1
          /\ IF ok
             THEN /\ status' = getStatus(progress)
                  /\ mpc' = "end"
             ELSE /\ mpc' = "standard"
                  /\ UNCHANGED status
     ELSE /\ ok
          /\ mpc' = "end"
          /\ UNCHANGED <<siteBuilds, status>>
  /\ UNCHANGED <<diskVars, now, batchVars, pipeVars, envVars, stepVars, dateVars,
                 extractVars, shellVars>>

\* runStandardBuild as far as the content generation: generate-content.js is
\* started when keyword.txt has keywords and the changed files ask for it
StandardBuildStart(regenerate) ==
  /\ mpc = "standard"
  /\ ppc = "none"
  /\ IF hasKeywords /\ regenerate
     THEN /\ ppc' = "start"
          /\ mpc' = "generate"
     ELSE /\ ~regenerate
          /\ mpc' = "site"
          /\ UNCHANGED ppc
  /\ UNCHANGED <<diskVars, now, batchVars, keywords, isBatch, cache, currentHash,
                 newKeywords, existingKeywords, allArticles, generatedCount, kwIndex,
                 result, envVars, stepVars, dateVars, statusVars, extractVars,
                 siteBuilds, shellVars>>

\* runStandardBuild after generate-content.js ended; a failure is logged and
\* the build goes on
StandardBuildGenerated ==
  /\ mpc = "generate"
  /\ ppc \in {"exit0", "exit1"}
  /\ ppc' = "none"
  /\ mpc' = "site"
  /\ UNCHANGED <<diskVars, now, batchVars, keywords, isBatch, cache, currentHash,
                 newKeywords, existingKeywords, allArticles, generatedCount, kwIndex,
                 result, envVars, stepVars, dateVars, statusVars, extractVars,
                 siteBuilds, shellVars>>

\* runStandardBuild: vite build is called; the process goes on to its end
\* when it succeeded and exits with 1 when it failed
StandardBuildSite ==
  /\ mpc = "site"
  /\ siteBuilds' = siteBuilds + 1
  /\ mpc' = "end"
  /\ UNCHANGED <<diskVars, now, batchVars, pipeVars, envVars, stepVars, dateVars,
                 statusVars, extractVars, shellVars>>

\* the build-manager.js process ends; its memory is gone
BuildExit ==
  /\ mpc = "end"
  /\ mpc' = "none"
  /\ bpc' = "none"
  /\ progress' = FreshProgress(0)
  /\ batchKeywords' = <<>>
  /\ UNCHANGED <<batchResult, diskVars, now, pipeVars, envVars, stepVars, dateVars,
                 statusVars, extractVars, siteBuilds, shellVars>>

\* Builds and standalone batch runs over a fixed keyword.txt.  The
\* BatchGenerator of a build is constructed by runBatchBuild and lives as long
\* as the build-manager.js process.
BuildNext ==
  \/ Build
  \/ (mpc \in {"none", "batch"} /\ Construct)
  \/ RunBatchGate
  \/ PrepareBatch
  \/ BatchCompleted
  \/ BatchFailed
  \/ (mpc = "none" /\ BatchExit)
  \/ PipelineStart
  \/ \E ok \in BOOLEAN : ProcessKeyword(ok)
  \/ PipelineFinish
  \/ PipelineCrash
  \/ (mpc = "none" /\ Tick)
  \/ \E ok \in BOOLEAN : BatchBuildSite(ok)
  \/ \E regenerate \in BOOLEAN : StandardBuildStart(regenerate)
  \/ StandardBuildGenerated
  \/ StandardBuildSite
  \/ BuildExit

\* keyword.txt of the builds: one batch, and two batches
BuildKeywordFiles == { <<La, Lb, Lc>>, <<La, Lb, Lc, Ld, Le, Lf>> }

\* Nothing was generated before and the key file is usable.
BuildInit ==
  /\ keywordFile \in BuildKeywordFiles
  /\ apiKeyFile = "valid"
  /\ progressFile = <<>>
  /\ batchFile = <<>>
  /\ articlesFile = <<>>
  /\ cacheFile = <<>>
  /\ now = 0
  /\ bpc = "none"
  /\ progress = FreshProgress(0)
  /\ batchKeywords = <<>>
  /\ batchResult = NoBatchResult
  /\ status = NoStatus
  /\ ppc = "none"
  /\ keywords = <<>>
  /\ isBatch = FALSE
  /\ cache = EmptyCache
  /\ currentHash = <<>>
  /\ newKeywords = <<>>
  /\ existingKeywords = <<>>
  /\ allArticles = <<>>
  /\ generatedCount = 0
  /\ kwIndex = 0
  /\ result = NoResult
  /\ adds = 0
  /\ faults = 0
  /\ StepIdle
  /\ DateIdle
  /\ ExtractIdle
  /\ BuildIdle
  /\ rmFails = FALSE

\* runBatchBuild runs on once runBatch has returned.
BuildSpec ==
  BuildInit /\ [][BuildNext]_vars /\ WF_vars(\E ok \in BOOLEAN : BatchBuildSite(ok))

\* ---------------------------------------------------------------------
\* Reading the disk as the claims do
\* ---------------------------------------------------------------------
hasArticle(articles, keyword) == \E j \in 1..Len(articles) : articles[j].keyword = keyword

\* what the next generate-content.js run will find pending
pendingOnDisk == getNewKeywords(readKeywords, loadCache)

\* C1: a pipeline run over 3 pending keywords that is killed after exactly one
\* article was committed leaves, on disk, a pending set of exactly the 2 keywords
\* that have no article yet.
C1_CrashLeavesRemainingTwo ==
  [][ (ppc = "processing" /\ ppc' = "exit1" /\ Len(newKeywords) = 3 /\ generatedCount = 1)
      => /\ Len(pendingOnDisk') = 2
         /\ \A j \in 1..Len(pendingOnDisk') :
              ~hasArticle(loadArticles', trim(pendingOnDisk'[j])) ]_vars

\* C2: once a pipeline run has finished, every keyword of the cache's
\* generatedKeywords has an article in the store.
C2_CachedKeywordsHaveArticles ==
  ppc = "exit0" =>
    \A j \in 1..Len(loadCache.generatedKeywords) :
      hasArticle(loadArticles, loadCache.generatedKeywords[j])

\* C3: in the persisted progress, status is "completed" exactly when
\* processedKeywords.length = totalKeywords and nothing of keyword.txt is pending.
C3_CompletedIffDrained ==
  progressFile # <<>> =>
    LET p == progressFile[1]
    IN (p.status = "completed")
         <=> (Len(p.processedKeywords) = p.totalKeywords /\ getPendingKeywords(p) = <<>>)

\* C4: shouldRunBatch is false when the status is "completed", false when lastRun
\* is set and less than BATCH_INTERVAL_MINUTES have passed since, true otherwise
\* (with lastRun = null too).  runBatch goes on to prepareBatch exactly when it is true.
C4_ShouldRunBatch ==
  [][ (bpc = "constructed" /\ bpc' # "constructed")
      => LET completed == progress.status = "completed"
             tooSoon == /\ progress.lastRun # <<>>
                        /\ now - progress.lastRun[1] < BATCH_INTERVAL_MINUTES
         IN /\ completed => bpc' = "done"
            /\ tooSoon => bpc' = "done"
            /\ (~completed /\ ~tooSoon) => bpc' = "prepare"
            /\ bpc' = "done" => batchResult'.reason = "interval_not_reached" ]_vars

\* C4 witness: the gate let a batch through exactly when the interval had elapsed.
C4_Witness ==
  /\ bpc = "prepare"
  /\ progress.lastRun # <<>>
  /\ now - progress.lastRun[1] = BATCH_INTERVAL_MINUTES

\* the positions of keyword.txt whose line is a keyword not yet processed
pendingPositions(prog) ==
  { j \in 1..Len(keywordFile) :
      /\ trim(keywordFile[j]) # <<>>
      /\ \A n \in 1..Len(prog.processedKeywords) :
           prog.processedKeywords[n] # trim(keywordFile[j]) }

\* the n-th pending position, in file order
nthPending(prog, n) ==
  CHOOSE j \in pendingPositions(prog) :
    Cardinality({q \in pendingPositions(prog) : q <= j}) = n

\* C5: prepareBatch returns min(BATCH_SIZE, pendingCount) keywords, the first
\* pending ones in the order of keyword.txt (none, a null, when nothing is pending).
C5_PrepareBatchSlice ==
  [][ (bpc = "prepare" /\ bpc' # "prepare")
      => LET count == Min(BATCH_SIZE, Cardinality(pendingPositions(progress)))
         IN IF count = 0
            THEN batchKeywords' = <<>>
            ELSE /\ batchKeywords' # <<>>
                 /\ Len(batchKeywords'[1]) = count
                 /\ \A n \in 1..count :
                      batchKeywords'[1][n] = trim(keywordFile[nthPending(progress, n)])
                 /\ batchFile' = batchKeywords' ]_vars

\* C5 witness: more than BATCH_SIZE keywords were pending and the batch holds
\* BATCH_SIZE of them.
C5_Witness ==
  /\ bpc = "generating"
  /\ Len(batchKeywords[1]) = BATCH_SIZE
  /\ Len(getPendingKeywords(progress)) > BATCH_SIZE

\* nothing of keyword.txt is pending and the persisted status says so
Drained ==
  /\ progressFile # <<>>
  /\ progressFile[1].status = "completed"
  /\ getPendingKeywords(progressFile[1]) = <<>>

\* C6: with keyword.txt fixed, batches run again and again, the interval elapsing
\* and the pipeline runs returning (the key file is usable), the pending set
\* becomes empty and the status "completed".
C6_EventuallyDrained == (apiKeyFile # "novalid") ~> Drained

\* C6 witness: a backlog of more than one batch has been drained.
C6_Witness ==
  /\ Drained
  /\ Len(progressFile[1].processedKeywords) > BATCH_SIZE

\* C7: while a backlog is drained over a fixed keyword.txt, totalBatches after
\* every prepareBatch is ceil(initialPending / BATCH_SIZE); the backlog starts
\* with nothing processed, so initialPending is the number of keywords of the file.
C7_TotalBatchesOfInitialPending ==
  bpc = "generating" =>
    progress.totalBatches = Ceil(Len(readLines(keywordFile)), BATCH_SIZE)

\* C8: markBatchComplete appends exactly the given keywords to processedKeywords,
\* sets lastRun to the current time, saves the progress, and sets the status to
\* "completed" exactly when no keyword is pending after the append (and leaves
\* the status alone otherwise).
C8_MarkBatchComplete ==
  [][ (bpc = "generating" /\ bpc' = "done" /\ ppc = "exit0")
      => /\ progress'.processedKeywords = progress.processedKeywords \o batchKeywords[1]
         /\ progress'.lastRun = <<now>>
         /\ progressFile' = <<progress'>>
         /\ progress'.status =
              IF getPendingKeywords(progress') = <<>> THEN "completed"
              ELSE progress.status ]_vars

\* two keywords are the same when their trimmed, lower-cased texts are
sameKeyword(k1, k2) == toLowerCase(trim(k1)) = toLowerCase(trim(k2))

\* C9: the pending set the ledger computes is the keyword list minus the keywords
\* that have an article in the store or are in the cache, keywords compared by
\* their trimmed, lower-cased text.
C9_PendingIsListMinusKnown ==
  (ppc = "processing" /\ kwIndex = 1) =>
    newKeywords =
      SelectSeq(keywords,
                LAMBDA k :
                  /\ \A j \in 1..Len(allArticles) : ~sameKeyword(allArticles[j].keyword, k)
                  /\ \A j \in 1..Len(cache.generatedKeywords) :
                       ~sameKeyword(cache.generatedKeywords[j], k))

\* C10: a pipeline run that follows a finished run over the same keyword list
\* finds nothing pending: it generates 0 articles, never reaches the keyword loop
\* (no generation call), and leaves the store and the cache's keyword list as
\* they were.
C10_SecondRunIdle ==
  [][ (/\ ppc = "start"
       /\ ppc' # "start"
       /\ result.reason \in {"success", "no_new_keywords", "no_changes"}
       /\ keywords' = keywords)
      => /\ ppc' = "exit0"
         /\ result'.generated = 0
         /\ articlesFile' = articlesFile
         /\ loadCache'.generatedKeywords = loadCache.generatedKeywords ]_vars

\* C10 witness: a run over an unchanged keyword list ended idle after an earlier
\* run had committed articles.
C10_Witness ==
  /\ ppc = "exit0"
  /\ result.reason \in {"no_changes", "no_new_keywords"}
  /\ result.generated = 0
  /\ loadArticles # <<>>
  /\ \A j \in 1..Len(keywords) : includes(loadCache.generatedKeywords, keywords[j])

\* the articles of public/articles.json, in file order
storeOnDisk == IF articlesFile # <<>> THEN articlesFile[1] ELSE <<>>

\* C11: whatever step is taken (a commit, a crash, another run), the store on
\* disk changes only by one article appended at its end, every earlier article
\* staying in place; and while a run processes keywords the store on disk holds
\* every article the run has in memory, the committed ones included.
C11_StoreOnlyExtended ==
  [][ /\ articlesFile' # articlesFile
         => /\ Len(storeOnDisk') = Len(storeOnDisk) + 1
            /\ SubSeq(storeOnDisk', 1, Len(storeOnDisk)) = storeOnDisk
      /\ ppc' = "processing" => storeOnDisk' = allArticles' ]_vars

\* C11 witness: a run was killed after it had added an article to a store that
\* already held the articles of an earlier run, and all of them are on disk.
C11_Witness ==
  /\ result.reason = "killed"
  /\ ppc = "exit1"
  /\ cacheFile # <<>>
  /\ Len(storeOnDisk) > Len(cacheFile[1].generatedKeywords)

\* the four generation steps of a keyword, in the order the loop takes them
AllSteps == <<"analysis", "content", "deepDive", "importance">>

\* C12: the store on disk changes only in the step that ends the image search
\* of a keyword whose strategy, draft and two rewrites have finished, and the
\* article written is that keyword's; a keyword logged as failed has no article
\* in the store.
C12_NoPartialArticle ==
  [][ /\ articlesFile' # articlesFile
         => /\ stepPc = "image"
            /\ stepsDone = AllSteps
            /\ analysis # <<>>
            /\ jsonResult # <<>>
            /\ storeOnDisk'[Len(storeOnDisk')].keyword = trim(newKeywords[kwIndex])
      /\ \A j \in 1..Len(log') :
           log'[j].level = "FAILED" => ~hasArticle(storeOnDisk', log'[j].keyword) ]_vars

\* C12 witness: of two keywords the first failed in its strategy or draft step
\* and the second was committed; the store holds the second only.
C12_Witness ==
  /\ Len(log) = 2
  /\ log[1].level = "FAILED"
  /\ log[2].level = "SUCCESS"
  /\ Len(storeOnDisk) = 1
  /\ storeOnDisk[1].keyword = log[2].keyword

\* a keyword of the run was abandoned
SomeKeywordFailed == \E j \in 1..Len(log) : log[j].level = "FAILED"

\* C13: the step in which a keyword is abandoned (its strategy or draft call ran
\* out of keys, or the answer held no JSON) leaves the store, the articles in
\* memory and the earlier log lines alone and moves to the next keyword only;
\* and after it the run goes on to attempt every keyword and ends with the
\* result "success", not with an error.
C13_FailureIsolated ==
  /\ [][ (Len(log') > Len(log) /\ log'[Len(log')].level = "FAILED")
         => /\ stepPc \in {"analysis", "content"}
            /\ log' = Append(log, [keyword |-> trim(newKeywords[kwIndex]),
                                   level |-> "FAILED"])
            /\ kwIndex' = kwIndex + 1
            /\ stepPc' = (IF kwIndex' <= Len(newKeywords) THEN "analysis" ELSE "none")
            /\ UNCHANGED <<articlesFile, allArticles, generatedCount, ppc, result,
                           newKeywords>> ]_vars
  /\ SomeKeywordFailed
       ~> (/\ ppc = "exit0"
           /\ result.reason = "success"
           /\ Len(log) = Len(keywords)
           /\ \A j \in 1..Len(log) : log[j].keyword = trim(keywords[j]))

\* C13 witness: the run ended with a result after its first keyword had failed
\* and its second keyword had been attempted and committed.
C13_Witness ==
  /\ ppc = "exit0"
  /\ result.reason = "success"
  /\ result.generated = 1
  /\ Len(log) = 2
  /\ log[1].level = "FAILED"
  /\ log[2].level = "SUCCESS"

\* C14: a pipeline run that finds keywords pending and no usable key in
\* apikey.txt (no line with the key prefix, or no file) ends with an error that
\* reaches its caller (exit 1) before any keyword work, the store and the cache
\* staying as they were; and a batch whose pipeline run ended so is not marked
\* as processed.
C14_SetupFatal ==
  [][ /\ (ppc = "start" /\ ppc' # "start" /\ pendingOnDisk # <<>> /\ apiKeyFile # "valid")
         => /\ ppc' = "exit1"
            /\ result'.reason = "error"
            /\ UNCHANGED <<articlesFile, cacheFile>>
      /\ (bpc = "generating" /\ bpc' = "done" /\ apiKeyFile # "valid"
            /\ result.reason \in {"error", "no_keywords"})
         => /\ progress'.processedKeywords = progress.processedKeywords
            /\ progressFile' = progressFile ]_vars

\* a generate call is about to make its first attempt
CallStarts == stepPc \in GenerateSteps /\ genI = 0

\* this step is an attempt of a generate call
Attempted == stepPc \in GenerateSteps /\ genI < Len(models)

\* C15: the attempts of one generate call are at most N for N keys, start with
\* the key at the cursor, go on in cyclic order, and never use a key twice.
C15_AtMostOneRound ==
  [][ /\ Len(tried') <= Len(models')
      /\ \A j, k \in 1..Len(tried') : j # k => tried'[j] # tried'[k]
      /\ \A j \in 1..(Len(tried') - 1) : tried'[j + 1] = (tried'[j] + 1) % Len(models')
      /\ CallStarts => tried'[1] = currentIndex ]_vars

\* C15 witness: a call over N = MaxKeys keys that started in the middle of the
\* list, wrapped around and used every key once.
C15_Witness ==
  /\ Len(models) = MaxKeys
  /\ Len(tried) = MaxKeys
  /\ tried[1] = 1
  /\ tried[MaxKeys] = 0

\* C16: an attempt with key j that succeeds ends the call with j's result and
\* moves the cursor to the key after j in cyclic order; the call that follows a
\* successful one makes its first attempt with that key.
C16_CursorAfterSuccess ==
  [][ /\ (Attempted /\ genResult' # <<>> /\ genResult'[1] = "result")
         => /\ genResult'[2] = tried'[Len(tried')]
            /\ genResult'[2] = (currentIndex + genI) % Len(models)
            /\ currentIndex' = (genResult'[2] + 1) % Len(models)
      /\ (CallStarts /\ genResult # <<>> /\ genResult[1] = "result")
         => tried'[1] = (genResult[2] + 1) % Len(models) ]_vars

\* C16 witness: a call made its first attempt with the third of three keys, the
\* call before it having succeeded with the second, and succeeded.
C16_Witness ==
  /\ Len(models) = 3
  /\ tried = <<2>>
  /\ genResult = <<"result", 2>>
  /\ currentIndex = 0

\* the first generate call of a freshly constructed rotator
FirstCall == stepPc = "analysis" /\ kwIndex = 1 /\ genResult = <<>> /\ currentIndex = 0

\* C17 as stated: on a fresh rotator whose first M keys fail and whose (M+1)-th
\* succeeds, generate returns the (M+1)-th key's result and the cursor, a
\* 0-based index, is (M+2) mod N afterwards.
C17_CursorIsMPlus2 ==
  [][ (FirstCall /\ Attempted /\ genResult' # <<>> /\ genResult'[1] = "result")
      => LET M == genI
         IN /\ genResult'[2] = M
            /\ currentIndex' = (M + 2) % Len(models) ]_vars

\* C17 corrected: on a fresh rotator whose first M keys fail and whose (M+1)-th
\* succeeds, generate returns the (M+1)-th key's result after M + 1 attempts and
\* the cursor, a 0-based index, is (M+1) mod N afterwards: it names the
\* (M+2)-th key, or the first one after the last.
C17_CursorIsMPlus1 ==
  [][ (FirstCall /\ Attempted /\ genResult' # <<>> /\ genResult'[1] = "result")
      => LET M == genI
         IN /\ genResult'[2] = M
            /\ tried' = [j \in 1..(M + 1) |-> j - 1]
            /\ currentIndex' = (M + 1) % Len(models) ]_vars

\* C17 witness: of three keys the first failed and the second succeeded in the
\* first call; the cursor is 2.
C17_Witness ==
  /\ Len(models) = 3
  /\ kwIndex = 1
  /\ stepPc = "content"
  /\ tried = <<0, 1>>
  /\ genResult = <<"result", 1>>
  /\ currentIndex = 2

\* C18: when the attempt with the last untried key fails, whatever the message
\* of any failure, the call throws the exhaustion error after exactly N
\* attempts, and the caller's catch runs: the same call is not made again.  A
\* call does not throw before.
C18_ExhaustedAfterN ==
  [][ /\ (Attempted /\ (genResult' = <<>> \/ genResult'[1] # "result"))
         => /\ genResult' = <<"exhausted">> <=> genI = Len(models) - 1
            /\ genResult' = <<"exhausted">>
                 => /\ Len(tried') = Len(models)
                    /\ warning' # <<>>
                    /\ IF stepPc \in {"analysis", "content"}
                       THEN /\ kwIndex' = kwIndex + 1
                            /\ log'[Len(log')].level = "FAILED"
                       ELSE stepPc' # stepPc /\ kwIndex' = kwIndex
      /\ genResult' = <<"exhausted">> => Len(tried') = Len(models') ]_vars

\* C18 witness: a call over three keys ended in exhaustion after three attempts,
\* the last failure being a permission error.
C18_Witness ==
  /\ Len(models) = 3
  /\ genResult = <<"exhausted">>
  /\ Len(tried) = 3
  /\ warning = <<"HTTP 403">>

\* C19: constructing the rotator with an empty key list throws (the run ends
\* with an error) and leaves no rotator; whenever a step works with a rotator it
\* has at least one key, and without one no generate attempt was ever made.
C19_NoEmptyRotator ==
  [][ /\ (stepPc = "construct" /\ Len(apiKeys) = 0)
         => /\ models' = <<>>
            /\ stepPc' = "none"
            /\ ppc' = "exit1"
            /\ result'.reason = "error"
      /\ stepPc' \in GenerateSteps \cup {"image"} => Len(models') > 0
      /\ Len(models') = 0 => (tried' = <<>> /\ log' = <<>>) ]_vars

\* C19 witness: the constructor was given no key and the run ended with an error.
C19_Witness ==
  /\ apiKeys = <<>>
  /\ stepPc = "none"
  /\ ppc = "exit1"
  /\ result.reason = "error"
  /\ models = <<>>

\* C20: for backdateDays >= 0 and any futureDays (their sum not 0), with
\* postsPerDay = max(1, ceil(pendingCount / (backdateDays + futureDays))) and
\* slot = floor((ordinal - 1) / postsPerDay), the keyword with that ordinal
\* (existing articles plus new keywords, from 1) gets today + slot -
\* backdateDays + 1; with the defaults 3 and 30, 33 keywords and an empty store
\* that is today - 2 for the 1st keyword and today + 1 for the 4th.
C20_PublishDate ==
  (dayOffset # <<>> /\ BACKDATE_DAYS >= 0 /\ BACKDATE_DAYS + FUTURE_SCHEDULE_DAYS # 0)
  => LET span == BACKDATE_DAYS + FUTURE_SCHEDULE_DAYS
         quotient == IF span > 0 THEN (pendingCount + span - 1) \div span
                     ELSE 0 - (pendingCount \div (0 - span))
         perDay == IF quotient > 1 THEN quotient ELSE 1
         ordinal == keywordCount
         slot == (ordinal - 1) \div perDay
     IN /\ dayOffset[1] = slot - BACKDATE_DAYS + 1
        /\ (envBackdate = <<>> /\ envFuture = <<>> /\ pendingCount = 33
              /\ loopI = keywordCount)
           => /\ ordinal = 1 => dayOffset[1] = 0 - 2
              /\ ordinal = 4 => dayOffset[1] = 1

\* C21: from an empty store, an empty cache and a fresh progress, with two
\* entries in keyword.txt, the first batch holds both entries (one batch in
\* all), and once its pipeline run, the first ever and not killed, has
\* committed both and the batch is marked,
\* the store holds exactly 2 articles, the cache lists the two keywords in
\* lower case, and the persisted status is "completed".
C21_EndToEndTwoKeywords ==
  /\ (bpc = "generating" /\ progress.currentBatch = 1 /\ faults = 0)
       => /\ batchKeywords = <<readLines(keywordFile)>>
          /\ Len(batchKeywords[1]) = 2
          /\ progress.totalBatches = 1
  /\ (bpc = "done" /\ progress.currentBatch = 1 /\ faults = 0
        /\ batchResult.reason = "batch_completed" /\ result.generated = 2)
       => /\ Len(storeOnDisk) = 2
          /\ cacheFile # <<>>
          /\ cacheFile[1].generatedKeywords =
               [j \in 1..2 |-> toLowerCase(trim(keywordFile[j]))]
          /\ progressFile # <<>>
          /\ progressFile[1].status = "completed"

\* C22: a run outside a batch whose keyword list hashes to the cache's lastHash
\* ends at once with the result "no_changes": nothing is generated (the keyword
\* loop is not entered, no pending list is computed) and the cache file and the
\* store stay as they were.  A batch run never ends so, whatever the hash: it
\* goes on to the ledger.
C22_HashShortCircuit ==
  [][ (ppc = "start" /\ ppc' # "start")
      => LET batchRun == Len(readBatchFile) > 0
             sameHash == loadCache.lastHash = <<getKeywordsHash(join(readKeywords))>>
         IN /\ (~batchRun /\ readKeywords # <<>> /\ sameHash)
                 => /\ ppc' = "exit0"
                    /\ result' = [generated |-> 0, skipped |-> Len(readKeywords),
                                  reason |-> "no_changes"]
                    /\ newKeywords' = <<>>
                    /\ kwIndex' = 0
                    /\ UNCHANGED <<cacheFile, articlesFile>>
            /\ (~batchRun /\ readKeywords # <<>> /\ ~sameHash)
                 => (ppc' = "processing" \/ result'.reason # "no_changes")
            /\ batchRun
                 => /\ (ppc' = "processing" \/ result'.reason # "no_changes")
                    /\ (sameHash /\ apiKeyFile = "valid")
                         => \/ ppc' = "processing" /\ newKeywords' = pendingOnDisk
                            \/ result'.reason = "no_new_keywords" /\ pendingOnDisk = <<>> ]_vars

\* C22 witness: a run outside a batch found the hash of an unchanged keyword.txt
\* in the cache and ended with "no_changes", the store holding the articles of
\* the earlier run.
C22_Witness ==
  /\ ppc = "exit0"
  /\ bpc = "none"
  /\ result.reason = "no_changes"
  /\ result.generated = 0
  /\ loadCache.lastHash = <<getKeywordsHash(join(readKeywords))>>
  /\ loadArticles # <<>>

\* C23: a call of getStatus changes nothing but the value it returns: the
\* progress in memory, the progress file, the batch file and every other file
\* stay as they were; and the value returned has processed = the number of
\* processed keywords of the progress, pending = the number of keywords of
\* keyword.txt not among them, and total = processed + pending.
C23_GetStatusReadOnly ==
  [][ status' # status
      => /\ UNCHANGED <<progress, progressFile, batchFile, keywordFile, articlesFile,
                        cacheFile, batchKeywords, bpc>>
         /\ status'.processed = Len(progress.processedKeywords)
         /\ status'.pending = Cardinality(pendingPositions(progress))
         /\ status'.total = status'.processed + status'.pending
         /\ status'.status = progress.status ]_vars

\* C23 witness: the status was asked for after a batch that left keywords
\* pending, no progress file having existed before the batch.
C23_Witness ==
  /\ bpc = "done"
  /\ batchResult.reason = "batch_completed"
  /\ status.processed = BATCH_SIZE
  /\ status.pending > 0
  /\ status.total = status.processed + status.pending
  /\ status.nextRun # <<>>

\* the draft of the keyword in progress exists: its strategy and draft steps
\* have succeeded
DraftDone == stepPc \in {"deepDive", "importance", "image"}

\* C24: once the strategy and the draft of a keyword have succeeded, the keyword
\* is left only by the commit of its article (it is never logged as failed):
\* a rewrite call that runs out of keys leaves the draft as it is, its field
\* keeping the draft's text, and goes on to the next step; the image step
\* commits the draft with imageUrl set to the URL found, or to null when the
\* search failed or found nothing; and every keyword that got that far is
\* committed in the end.
C24_SoftFailures ==
  /\ [][ DraftDone
         => /\ (stepPc \in {"deepDive", "importance"} /\ genResult' = <<"exhausted">>)
                 => /\ jsonResult' = jsonResult
                    /\ stepPc' = (IF stepPc = "deepDive" THEN "importance" ELSE "image")
                    /\ kwIndex' = kwIndex
            /\ (stepPc' # stepPc /\ stepPc # "image")
                 => /\ stepPc' = (IF stepPc = "deepDive" THEN "importance" ELSE "image")
                    /\ kwIndex' = kwIndex
                    /\ jsonResult' # <<>>
            /\ log' # log
                 => /\ stepPc = "image"
                    /\ log' = Append(log, [keyword |-> trim(newKeywords[kwIndex]),
                                           level |-> "SUCCESS"])
                    /\ Len(storeOnDisk') = Len(storeOnDisk) + 1
                    /\ \E imageUrl \in {<<>>, <<"url">>} :
                         storeOnDisk'[Len(storeOnDisk')]
                           = [jsonResult[1] EXCEPT !.imageUrl = imageUrl]
            /\ UNCHANGED <<ppc, result>> ]_vars
  /\ \A k \in 1..2 :
       (DraftDone /\ kwIndex = k)
         ~> (Len(log) >= k /\ log[k].level = "SUCCESS"
               /\ hasArticle(storeOnDisk, trim(keywords[k])))

\* C24 witness: an article is in the store whose first rewrite failed on every
\* key (deepDive is the draft's text), whose second rewrite succeeded, and whose
\* image search gave nothing (imageUrl is null).
C24_Witness ==
  /\ Len(storeOnDisk) >= 1
  /\ storeOnDisk[1].deepDive = "draft"
  /\ storeOnDisk[1].importance = "rewritten"
  /\ storeOnDisk[1].imageUrl = <<>>
  /\ log[1].level = "SUCCESS"

\* C25: a run that finds no readable progress file starts from the fresh
\* progress (status "idle", nothing processed, lastRun null); a pipeline run
\* that finds no readable cache file works with the empty cache (no generated
\* keywords, empty lastHash), so every keyword counts as new; a pipeline run
\* that finds no readable batch file takes its keywords from keyword.txt and is
\* not a batch run; and none of these runs ends with an error.
C25_MissingFilesAreFirstRun ==
  [][ /\ (bpc = "none" /\ bpc' = "constructed" /\ ~readable(progressFile))
         => /\ progress'.status = "idle"
            /\ progress'.processedKeywords = <<>>
            /\ progress'.lastRun = <<>>
            /\ progress'.totalKeywords = 0
            /\ UNCHANGED diskVars
      /\ (ppc = "start" /\ ppc' # "start" /\ ~readable(cacheFile))
         => /\ ppc' = "processing"
            /\ cache' = [generatedKeywords |-> <<>>, lastHash |-> <<>>]
            /\ existingKeywords' = <<>>
            /\ newKeywords' = keywords'
            /\ UNCHANGED diskVars
      /\ (ppc = "start" /\ ppc' # "start" /\ ~readable(batchFile))
         => /\ keywords' = readLines(keywordFile)
            /\ isBatch' = FALSE
            /\ ppc' # "exit1" ]_vars

\* C25 witness: after an earlier run had filled the store, a run outside a
\* batch found the cache file unreadable and no batch file, and works on all of
\* keyword.txt with the empty cache.
C25_Witness ==
  /\ ppc = "processing"
  /\ cacheFile = Unreadable
  /\ batchFile = <<>>
  /\ cache = EmptyCache
  /\ newKeywords = readLines(keywordFile)
  /\ isBatch = FALSE
  /\ loadArticles # <<>>

\* C26: whenever the status of the progress is "processing", in the memory of a
\* BatchGenerator or in the progress file, the batch file exists; for the
\* BatchGenerator it holds the slice its prepareBatch returned.
C26_ProcessingHasBatchFile ==
  /\ (bpc # "none" /\ progress.status = "processing")
       => /\ readable(batchFile)
          /\ batchKeywords # <<>>
          /\ batchFile[1] = batchKeywords[1]
  /\ (readable(progressFile) /\ progressFile[1].status = "processing")
       => readable(batchFile)

\* the place of a step in the order of the loop body
stepRank(pc) ==
  CASE pc = "analysis" -> 1
    [] pc = "content" -> 2
    [] pc = "deepDive" -> 3
    [] pc = "importance" -> 4
    [] pc = "image" -> 5
    [] OTHER -> 6

\* C27: within a keyword the steps are taken in the order strategy, draft,
\* rewrite of deepDive, rewrite of importance, image search, commit: a step is
\* followed only by a later one, the steps finished so far are a prefix of that
\* order without repetition, and the store is written only at the end of the
\* image step.  The loop moves to a keyword only from the keyword before it,
\* in the step in which that one is committed or abandoned (one log line), and
\* starts it with the strategy step.
C27_StepOrder ==
  [][ (stepPc \in GenerateSteps \cup {"image"})
      => /\ kwIndex' \in {kwIndex, kwIndex + 1}
         /\ stepsDone' = SubSeq(AllSteps, 1, Len(stepsDone'))
         /\ kwIndex' = kwIndex
              => /\ stepPc' = stepPc \/ stepRank(stepPc') > stepRank(stepPc)
                 /\ stepPc' \in GenerateSteps \cup {"image"}
                 /\ Len(stepsDone') >= Len(stepsDone)
                 /\ stepPc' # stepPc => Len(stepsDone') = stepRank(stepPc') - 1
                 /\ UNCHANGED <<log, articlesFile, allArticles>>
         /\ kwIndex' = kwIndex + 1
              => /\ Len(log') = Len(log) + 1
                 /\ log'[Len(log')].keyword = trim(newKeywords[kwIndex])
                 /\ log'[Len(log')].level = "SUCCESS" <=> stepPc = "image"
                 /\ log'[Len(log')].level = "FAILED" <=> stepPc \in {"analysis", "content"}
                 /\ articlesFile' # articlesFile <=> stepPc = "image"
                 /\ stepsDone' = <<>>
                 /\ stepPc' = (IF kwIndex' <= Len(newKeywords) THEN "analysis" ELSE "none")
         /\ kwIndex' = Len(log') + 1 ]_vars

\* C27 witness: the second keyword is in its first rewrite step, its strategy
\* and draft done, after the first keyword went through all steps and was
\* committed.
C27_Witness ==
  /\ kwIndex = 2
  /\ stepPc = "deepDive"
  /\ stepsDone = <<"analysis", "content">>
  /\ Len(log) = 1
  /\ log[1].level = "SUCCESS"
  /\ Len(storeOnDisk) = 1
  /\ storeOnDisk[1].deepDive = "rewritten"
  /\ storeOnDisk[1].importance = "rewritten"

\* an external call is about to be issued: an attempt of a generate call with
\* some key, or the image search
CallIssued == stepPc \in GenerateSteps \cup {"image"}

\* C28: an external call is issued only when a delay was awaited since the
\* external call before it ended, whether that one returned or failed.
C28_DelayBetweenCalls == CallIssued => sinceCall \in {"nocall", "delay"}

\* C29: with positive settings, whatever the number of articles already in the
\* store, the date given to a new keyword is not before today - backdateDays
\* and not after today + futureDays.
C29_DateInWindow ==
  (dayOffset # <<>> /\ BACKDATE_DAYS > 0 /\ FUTURE_SCHEDULE_DAYS > 0)
  => /\ dayOffset[1] >= 0 - BACKDATE_DAYS
     /\ dayOffset[1] <= FUTURE_SCHEDULE_DAYS

\* the "{" and "}" of t[first..j] are as many
balancedUpTo(t, first, j) ==
  Cardinality({q \in first..j : t[q] = "{"}) = Cardinality({q \in first..j : t[q] = "}"})

\* the first balanced {...} span of a text: from its first "{" to the "}" that
\* closes it; <<>> when that brace is never closed
firstBalancedSpan(t) ==
  LET opens == positionsOf(t, "{")
      first == CHOOSE j \in opens : \A q \in opens : j <= q
      ends == {j \in first..Len(t) : balancedUpTo(t, first, j)}
      end == CHOOSE j \in ends : \A q \in ends : j <= q
  IN IF opens = {} THEN <<>>
     ELSE IF ends = {} THEN <<>>
     ELSE <<SubSeq(t, first, end)>>

\* C30: extractJson returns the object parsed from the first balanced {...}
\* span of the text, whatever follows the span (another brace included), and
\* null only when the text has no such span or the span is not valid JSON.
C30_FirstBalancedSpan ==
  extracted # <<>>
  => LET span == firstBalancedSpan(text)
     IN extracted[1] = (IF span # <<>> /\ isJsonValue(span[1]) THEN JsonObject(span[1])
                        ELSE JsonNull)

\* C31: a pipeline run that finds a non-empty batch file works on that slice
\* only: the keywords it goes through, the articles it adds to the store and the
\* entries it adds to the cache are all keywords of the batch file; a keyword of
\* keyword.txt outside the slice gets no generation attempt, no article and no
\* cache entry in that run.
C31_BatchIsolation ==
  [][ /\ (ppc = "start" /\ Len(readBatchFile) > 0 /\ ppc' = "processing")
         => \A j \in 1..Len(newKeywords') : includes(readBatchFile, trim(newKeywords'[j]))
      /\ (ppc = "processing" /\ isBatch)
         => /\ \A j \in 1..Len(newKeywords) : includes(readBatchFile, trim(newKeywords[j]))
            /\ \A j \in 1..Len(storeOnDisk') :
                 \/ hasArticle(storeOnDisk, storeOnDisk'[j].keyword)
                 \/ includes(readBatchFile, storeOnDisk'[j].keyword)
            /\ \A j \in 1..Len(loadCache'.generatedKeywords) :
                 \/ includes(loadCache.generatedKeywords, loadCache'.generatedKeywords[j])
                 \/ includes(readBatchFile, loadCache'.generatedKeywords[j]) ]_vars

\* C31 witness: a batch run has generated articles and saved the cache while
\* keyword.txt holds a keyword that is not in the batch file.
C31_Witness ==
  /\ bpc = "generating"
  /\ ppc = "exit0"
  /\ result.reason = "success"
  /\ result.generated > 0
  /\ Len(readBatchFile) > 0
  /\ \E j \in 1..Len(readLines(keywordFile)) :
       ~includes(readBatchFile, readLines(keywordFile)[j])

\* the checksum of what keyword.txt holds: its keywords, trimmed, joined by "\n"
keywordFileHash == getKeywordsHash(join(readLines(keywordFile)))

\* C32: whenever a pipeline run saves the cache (it ends with reason "success" or
\* "no_new_keywords"), in batch mode as in standard mode, the lastHash it stores
\* is the checksum of the full contents of keyword.txt as of that run.
C32_LastHashOfKeywordFile ==
  [][ (ppc # "exit0" /\ ppc' = "exit0" /\ result'.reason \in {"success", "no_new_keywords"})
      => loadCache'.lastHash = <<keywordFileHash>> ]_vars

\* runBatch returned "batch_completed" to runBatchBuild
BatchCompletedInBuild ==
  mpc = "batch" /\ bpc = "done" /\ batchResult.reason = "batch_completed"

\* C33: in batch build mode, vite build is called only after runBatch returned
\* with the batch generated and the progress saved, and whenever runBatch
\* reports "batch_completed" the site build is called afterwards, in the same
\* build-manager.js process.
C33_BuildAfterBatch ==
  /\ [][ (mpc = "batch" /\ siteBuilds' # siteBuilds)
         => /\ BatchCompletedInBuild
            /\ ppc = "none"
            /\ progressFile = <<progress>>
            /\ \A j \in 1..Len(batchKeywords[1]) :
                 includes(progress.processedKeywords, batchKeywords[1][j]) ]_vars
  /\ [][ (BatchCompletedInBuild /\ mpc' # "batch") => siteBuilds' = siteBuilds + 1 ]_vars
  /\ BatchCompletedInBuild ~> (mpc # "batch" /\ siteBuilds > 0)

\* C33 witness: a batch build has built the site after its batch completed.
C33_Witness ==
  /\ mpc = "end"
  /\ bpc = "done"
  /\ batchResult.reason = "batch_completed"
  /\ siteBuilds = 1

\* C34: every keyword of the persisted progress's processedKeywords has an
\* article in the article store, also after a batch whose pipeline exited
\* normally having skipped or given up some of its keywords.
C34_ProcessedHaveArticles ==
  readable(progressFile)
  => \A j \in 1..Len(progressFile[1].processedKeywords) :
       hasArticle(storeOnDisk, progressFile[1].processedKeywords[j])

\* C35: after any sequence of pipeline runs, killed or failed runs that were
\* started again included, the article store holds at most one article per
\* keyword.
C35_OneArticlePerKeyword ==
  \A i, j \in 1..Len(storeOnDisk) :
    storeOnDisk[i].keyword = storeOnDisk[j].keyword => i = j

\* what a BatchGenerator constructed now would prepare: its progress and slice
nextPrepared ==
  LET pendingKeywords == getPendingKeywords(loadProgress)
  IN [ progress |-> preparedProgress(loadProgress, pendingKeywords),
       slice |-> batchSlice(pendingKeywords) ]

\* C36: when the pipeline subprocess of a batch fails, runBatch returns
\* processed = 0, shouldDeploy = false, reason "generation_failed", and the
\* progress file is as it was before the call: prepareBatch did not write it and
\* the catch does not, so that an invocation that follows is let through the
\* interval gate and prepares the same batch (same slice, same currentBatch).
C36_FailedBatchLeavesProgress ==
  [][ /\ (bpc = "prepare" /\ bpc' = "generating")
         => /\ progressFile' = progressFile
            /\ progress = loadProgress
      /\ (bpc = "generating" /\ ppc = "exit1" /\ bpc' = "done")
         => /\ batchResult' = [processed |-> 0, shouldDeploy |-> FALSE,
                               reason |-> "generation_failed"]
            /\ progressFile' = progressFile
            /\ shouldRunBatch(loadProgress', now')
            /\ nextPrepared'.slice = batchKeywords[1]
            /\ nextPrepared'.progress = progress ]_vars

\* C36 witness: the second batch failed, the first one being recorded on disk.
C36_Witness ==
  /\ bpc = "done"
  /\ batchResult.reason = "generation_failed"
  /\ readable(progressFile)
  /\ progressFile[1].lastRun # <<>>
  /\ progressFile[1].currentBatch = 1
  /\ progress.currentBatch = 2

\* C37: on every return path of runBatch (interval not reached, all completed,
\* batch completed, generation failed) the batch file no longer exists, and so
\* a standalone pipeline run never finds a batch file to restrict it.
C37_NoBatchFileAfterRunBatch ==
  /\ [][ (bpc # "done" /\ bpc' = "done") => batchFile' = <<>> ]_vars
  /\ [][ (bpc = "none" /\ ppc = "start") => Len(readBatchFile) = 0 ]_vars

\* C38: in every reachable progress, in memory and on disk, currentBatch is at
\* most totalBatches, so that "batch currentBatch/totalBatches" and the
\* remaining-batches figure totalBatches - currentBatch are never inverted or
\* negative.
C38_CurrentBatchWithinTotal ==
  /\ progress.currentBatch <= progress.totalBatches
  /\ readable(progressFile) => progressFile[1].currentBatch <= progressFile[1].totalBatches

\* C39: an attempt that fails leaves the rotator's cursor alone, so a generate
\* call that ends in exhaustion leaves the cursor where it was when the call
\* began (the index of its first attempt); the cursor changes only in an
\* attempt that succeeds.
C39_ExhaustionKeepsCursor ==
  [][ /\ (Attempted /\ (genResult' = <<>> \/ genResult'[1] # "result"))
         => currentIndex' = currentIndex
      /\ (Attempted /\ genResult' = <<"exhausted">>)
         => /\ currentIndex' = tried'[1]
            /\ Len(tried') = Len(models)
      /\ currentIndex' # currentIndex
         => /\ Attempted
            /\ genResult' # <<>>
            /\ genResult'[1] = "result" ]_vars

\* C39 witness: over three keys a call that began at the second key, after a
\* success with the first, ended in exhaustion with the cursor at the second.
C39_Witness ==
  /\ Len(models) = 3
  /\ genResult = <<"exhausted">>
  /\ tried = <<1, 2, 0>>
  /\ currentIndex = 1

\* the persisted progress says "completed"
CompletedOnDisk == readable(progressFile) /\ progressFile[1].status = "completed"

\* C40: once the persisted status is "completed", no runBatch, no run gated by
\* prepareBatch and no getStatus call changes the persisted status,
\* processedKeywords or lastRun, and no pipeline run is started, until
\* resetProgress is called, also when keywords were added to keyword.txt.
C40_CompletedIsAbsorbing ==
  [][ CompletedOnDisk
      => \/ ResetProgress
         \/ /\ readable(progressFile')
            /\ progressFile'[1].status = "completed"
            /\ progressFile'[1].processedKeywords = progressFile[1].processedKeywords
            /\ progressFile'[1].lastRun = progressFile[1].lastRun
            /\ ppc' = "none"
            /\ bpc' \in {"none", "constructed", "done"} ]_vars

\* C40 witness: the progress is completed on disk, a keyword added since is
\* pending, the interval has elapsed, and runBatch has refused to run.
C40_Witness ==
  /\ CompletedOnDisk
  /\ getPendingKeywords(progressFile[1]) # <<>>
  /\ bpc = "done"
  /\ batchResult.reason = "interval_not_reached"
  /\ progress.lastRun # <<>>
  /\ now - progress.lastRun[1] >= BATCH_INTERVAL_MINUTES

====
